---- MODULE Spec2Model ----
(***************************************************************************)
(* A model of xdress.types.system.TypeSystem: the registry tables, the     *)
(* per-instance memo cache, canonicalization (canon and dependent-type     *)
(* resolution), the structural queries, the C++ spelling renderer, the     *)
(* registration API and the scoped swaps.                                  *)
(*                                                                         *)
(* Python values are tagged pairs so that values of different Python types *)
(* can be compared:                                                        *)
(*   <<"s", name>>   a str (type name, predicate flag)                     *)
(*   <<"i", n>>      an int                                                *)
(*   <<"f", n>>      a float (n tenths)                                    *)
(*   <<"t", seq>>    a tuple, seq the sequence of its elements             *)
(*   <<"k", kind>>   an argument-kind marker (a member of utils.Arg)       *)
(*   <<"o", "None">> None                                                  *)
(*   <<"b", bool>>   a bool returned by a structural query                 *)
(*   <<"x", toks>>   a rendered spelling, toks its sequence of fragments   *)
(***************************************************************************)
EXTENDS Integers, Sequences, FiniteSets, TLC

VARIABLES
    ts,      \* the TypeSystem instance: one field per data table, plus cache
    frames,  \* the active swap_* context managers, innermost last
    ret,     \* the outcome of the last call made on ts
    born,    \* for every memo entry, the number of the call that stored it
    ncalls   \* number of calls made so far

vars == <<ts, frames, ret, born, ncalls>>

-----------------------------------------------------------------------------
(* Python values *)

Str(s) == <<"s", s>>
IntV(n) == <<"i", n>>
Flt(n) == <<"f", n>>
Tup(q) == <<"t", q>>
ArgKind(k) == <<"k", k>>
None == <<"o", "None">>
Bool(b) == <<"b", b>>
Txt(q) == <<"x", q>>

isstr(v) == v[1] = "s"
isint(v) == v[1] = "i"
isNumber(v) == v[1] \in {"i", "f"}
isSequence(v) == v[1] = "t"
inArg(v) == v[1] = "k"
elems(v) == v[2]
len(v) == Len(v[2])
at(v, i) == v[2][i + 1]
last(v) == v[2][Len(v[2])]
slice(v, lo, hi) ==
    LET h == IF hi < Len(v[2]) THEN hi ELSE Len(v[2])
    IN  IF lo >= h THEN <<>> ELSE SubSeq(v[2], lo + 1, h)

(* dict helpers: a dict is a function on the set of its keys *)
EmptyDict == [k \in {} |-> None]
Put(d, k, v) == [x \in DOMAIN d \cup {k} |-> IF x = k THEN v ELSE d[x]]
Pop(d, k) == [x \in DOMAIN d \ {k} |-> d[x]]
Update(d, e) == [x \in DOMAIN d \cup DOMAIN e |-> IF x \in DOMAIN e THEN e[x] ELSE d[x]]

(* the outcome of a call: e is "ok" or the exception class, v the value    *)
(* returned, s the TypeSystem after the call                                *)
R(e, v, s) == [e |-> e, v |-> v, s |-> s]
Ok(v, s) == R("ok", v, s)
Raise(e, s) == R(e, None, s)

(* x = <expression>: the statements F that follow see its value as x *)
Bind(v, F(_)) == CHOOSE y \in {F(x) : x \in {v}} : TRUE

(* x = <call>: the statements F that follow run when the call returned;    *)
(* an exception it raised propagates                                       *)
Then(r, F(_)) == Bind(r, LAMBDA x : IF x.e = "ok" THEN F(x) ELSE x)


-----------------------------------------------------------------------------
(* utils.memoize_method: results are stored per instance in ts.cache under *)
(* the key (method, positional arguments); a call that raises stores       *)
(* nothing; a stored result is returned without running the method.        *)

memoize_method(s, meth, args, body) ==
    IF <<meth, args>> \in DOMAIN s.cache THEN Ok(s.cache[<<meth, args>>], s)
    ELSE Then(body, LAMBDA b :
              Ok(b.v, [b.s EXCEPT !.cache = Put(@, <<meth, args>>, b.v)]))

(* TypeSystem.clearmemo *)
clearmemo(s) == [s EXCEPT !.cache = EmptyDict]

(* TypeSystem.delmemo: del self._cache[key] *)
delmemo(s, meth, args) ==
    IF <<meth, args>> \in DOMAIN s.cache
    THEN Ok(None, [s EXCEPT !.cache = Pop(@, <<meth, args>>)])
    ELSE Raise("KeyError", s)

(* _LazyConfigDict.__getitem__: a stored text is formatted with the        *)
(* module-name settings when it is read; other values are returned as is.  *)
RECURSIVE lazy_format(_, _)
lazy_format(s, toks) ==
    IF toks = <<>> THEN <<>>
    ELSE LET h == Head(toks)
             f == IF h = "{dtypes}" THEN s.dtypes
                  ELSE IF h = "{stlcontainers}" THEN s.stlcontainers
                  ELSE IF h = "{extra_types}" THEN s.extra_types
                  ELSE h
         IN  <<f>> \o lazy_format(s, Tail(toks))

lazy_getitem(s, d, k) ==
    IF d[k][1] = "x" THEN Txt(lazy_format(s, d[k][2])) ELSE d[k]

-----------------------------------------------------------------------------
(* Method calls on the instance: self.method(args) looks the method up on *)
(* the TypeSystem and runs it behind its memoizing decorator.              *)

RECURSIVE call(_, _, _)

self_istemplate(s, t) == call(s, "istemplate", <<t>>)
self_isdependent(s, t) == call(s, "isdependent", <<t>>)
self_isrefinement(s, t) == call(s, "isrefinement", <<t>>)
self_isenum(s, t) == call(s, "isenum", <<t>>)
self_canon(s, t) == call(s, "canon", <<t>>)
self_resolve_dependent_type(s, tname, tinst) ==
    call(s, "_resolve_dependent_type", <<tname, tinst>>)
self_strip_predicates(s, t) == call(s, "strip_predicates", <<t>>)
self_cpp_type(s, t) == call(s, "cpp_type", <<t>>)
self_cpp_literal(s, lit) == call(s, "cpp_literal", <<lit>>)
self_cython_c2py_getitem(s, t) == call(s, "cython_c2py_getitem", <<t>>)
self_cython_c2py(s, name, t) == call(s, "cython_c2py", <<name, t>>)
self_cython_py2c(s, name, t) == call(s, "cython_py2c", <<name, t>>)

-----------------------------------------------------------------------------
(* Structural queries *)

(* TypeSystem.istemplate *)
istemplate(s, t) ==
    memoize_method(s, "istemplate", <<t>>,
        IF isstr(t) THEN Ok(Bool(t \in DOMAIN s.template_types), s)
        ELSE IF isSequence(t)
             THEN IF len(t) = 0 THEN Raise("IndexError", s)
                  ELSE self_istemplate(s, at(t, 0))
             ELSE Ok(Bool(FALSE), s))

(* the heads of the dependent refinements: k[0] for every non-string key   *)
deptypes(s) ==
    {at(k, 0) : k \in {k \in DOMAIN s.refined_types : isSequence(k) /\ len(k) > 0}}

(* TypeSystem.isdependent *)
isdependent(s, t) ==
    memoize_method(s, "isdependent", <<t>>,
        IF isstr(t) THEN Ok(Bool(t \in deptypes(s)), s)
        ELSE IF isSequence(t)
             THEN IF len(t) = 0 THEN Raise("IndexError", s)
                  ELSE self_isdependent(s, at(t, 0))
             ELSE Ok(Bool(FALSE), s))

(* TypeSystem.isrefinement *)
isrefinement(s, t) ==
    memoize_method(s, "isrefinement", <<t>>,
        IF isstr(t) THEN Ok(Bool(t \in DOMAIN s.refined_types), s)
        ELSE self_isdependent(s, t))

-----------------------------------------------------------------------------
(* Canonicalization *)

RECURSIVE canon_typemap_keys(_, _, _)
RECURSIVE canon_templated_deps(_, _, _, _)
RECURSIVE canon_plain_deps(_, _, _, _)
RECURSIVE canon_template_slots(_, _, _)

(* [k for k in self.refined_types if k[0] == tname]; registry names have   *)
(* more than one character, so k[0] of a string key never equals a name    *)
depkeys(s, tname) ==
    {k \in DOMAIN s.refined_types : isSequence(k) /\ len(k) > 0 /\ at(k, 0) = tname}

(* dict([(k, tinst[i]) for i, k in enumerate(depkey[1:], 1)                *)
(*                      if isinstance(k, basestring)])                     *)
typemap(depkey, tinst) ==
    [k \in {at(depkey, i) : i \in {j \in 1..(len(depkey) - 1) : isstr(at(depkey, j))}} |->
        at(tinst, CHOOSE i \in 1..(len(depkey) - 1) :
                    /\ at(depkey, i) = k
                    /\ \A j \in 1..(len(depkey) - 1) : at(depkey, j) = k => j <= i)]

(* tuple([self.canon(k) for k in depkey[1:] if k in typemap]) *)
canon_typemap_keys(s, ks, acc) ==
    IF ks = <<>> THEN Ok(acc, s)
    ELSE IF ~isstr(Head(ks)) THEN canon_typemap_keys(s, Tail(ks), acc)
    ELSE Then(self_canon(s, Head(ks)), LAMBDA r :
              canon_typemap_keys(r.s, Tail(ks), Append(acc, r.v)))

(* tuple([(k[0], self.canon(k[1]), instval)                                *)
(*        for k, instval in zip(depkey[1:], tinst[1:]) if k not in typemap]) *)
canon_templated_deps(s, ks, insts, acc) ==
    IF ks = <<>> \/ insts = <<>> THEN Ok(acc, s)
    ELSE IF isstr(Head(ks)) THEN canon_templated_deps(s, Tail(ks), Tail(insts), acc)
    ELSE IF ~isSequence(Head(ks)) THEN Raise("TypeError", s)
    ELSE IF len(Head(ks)) < 2 THEN Raise("IndexError", s)
    ELSE Then(self_canon(s, at(Head(ks), 1)), LAMBDA r :
              canon_templated_deps(r.s, Tail(ks), Tail(insts),
                  Append(acc, Tup(<<at(Head(ks), 0), r.v, Head(insts)>>))))

(* a variant that pairs each dependency with its declared type as written *)
canon_plain_deps_uncanonical(s, ks, insts, acc) ==
    IF ks = <<>> \/ insts = <<>> THEN Ok(acc, s)
    ELSE IF isNumber(Head(ks)) \/ Head(ks) = None \/ inArg(Head(ks))
         THEN Raise("TypeError", s)
    ELSE IF isstr(Head(ks)) \/ len(Head(ks)) # 2 THEN Raise("ValueError", s)
    ELSE canon_plain_deps(s, Tail(ks), Tail(insts),
             Append(acc, Tup(<<at(Head(ks), 0), at(Head(ks), 1), Head(insts)>>)))

(* tuple([(kname, self.canon(ktype), instval)                              *)
(*        for (kname, ktype), instval in zip(depkey[1:], tinst[1:])])      *)
canon_plain_deps(s, ks, insts, acc) ==
    IF ks = <<>> \/ insts = <<>> THEN Ok(acc, s)
    ELSE IF isNumber(Head(ks)) \/ Head(ks) = None \/ inArg(Head(ks))
         THEN Raise("TypeError", s)
    ELSE IF isstr(Head(ks)) \/ len(Head(ks)) # 2 THEN Raise("ValueError", s)
    ELSE Then(self_canon(s, at(Head(ks), 1)), LAMBDA r :
              canon_plain_deps(r.s, Tail(ks), Tail(insts),
                  Append(acc, Tup(<<at(Head(ks), 0), r.v, Head(insts)>>))))

(* for k in typemap: del self.type_aliases[k]; self.delmemo('canon', k) *)
RECURSIVE unbind_typemap(_, _)

(* a variant that forgets the memo entries of the parameter names but      *)
(* leaves their aliases in type_aliases                                    *)
unbind_typemap_keeping_alias(s, ks) ==
    IF ks = <<>> THEN Ok(None, s)
    ELSE IF ~isstr(Head(ks)) THEN unbind_typemap(s, Tail(ks))
    ELSE Then(delmemo(s, "canon", <<Head(ks)>>),
              LAMBDA r : unbind_typemap(r.s, Tail(ks)))

unbind_typemap(s, ks) ==
    IF ks = <<>> THEN Ok(None, s)
    ELSE IF ~isstr(Head(ks)) THEN unbind_typemap(s, Tail(ks))
    ELSE IF Head(ks) \notin DOMAIN s.type_aliases THEN Raise("KeyError", s)
    ELSE Then(delmemo([s EXCEPT !.type_aliases = Pop(@, Head(ks))],
                      "canon", <<Head(ks)>>),
              LAMBDA r : unbind_typemap(r.s, Tail(ks)))

(* a variant of the templated branch that binds the parameters without    *)
(* looking for them in type_aliases first                                  *)
resolve_templated_unchecked(s, tname, tinst, depkey, depval) ==
    IF len(tinst) # len(depkey) THEN Raise("AssertionError", s)
    ELSE
    Then(self_canon([s EXCEPT !.type_aliases = Update(@, typemap(depkey, tinst))],
                    depval), LAMBDA r0 :
    Then(canon_typemap_keys(r0.s, slice(depkey, 1, len(depkey)), <<>>), LAMBDA r1 :
    Then(canon_templated_deps(r1.s, slice(depkey, 1, len(depkey)),
                              slice(tinst, 1, len(tinst)), <<>>), LAMBDA r2 :
    Then(unbind_typemap(r2.s, slice(depkey, 1, len(depkey))), LAMBDA r3 :
         Ok(Tup(<<r0.v, Tup(<<tname>> \o r1.v \o r2.v)>>), r3.s)))))

(* the templated branch of _resolve_dependent_type *)
resolve_templated(s, tname, tinst, depkey, depval) ==
    IF len(tinst) # len(depkey) THEN Raise("AssertionError", s)
    ELSE IF \E k \in DOMAIN typemap(depkey, tinst) : k \in DOMAIN s.type_aliases
         THEN Raise("TypeError", s)
    ELSE
    Then(self_canon([s EXCEPT !.type_aliases = Update(@, typemap(depkey, tinst))],
                    depval), LAMBDA r0 :
    Then(canon_typemap_keys(r0.s, slice(depkey, 1, len(depkey)), <<>>), LAMBDA r1 :
    Then(canon_templated_deps(r1.s, slice(depkey, 1, len(depkey)),
                              slice(tinst, 1, len(tinst)), <<>>), LAMBDA r2 :
    Then(unbind_typemap(r2.s, slice(depkey, 1, len(depkey))), LAMBDA r3 :
         Ok(Tup(<<r0.v, Tup(<<tname>> \o r1.v \o r2.v)>>), r3.s)))))

(* the statements of the templated branch one after the other, as a       *)
(* thread runs them: the assertion and the search for the parameter names  *)
(* in type_aliases                                                         *)
resolve_check(s, tinst, depkey) ==
    IF len(tinst) # len(depkey) THEN Raise("AssertionError", s)
    ELSE IF \E k \in DOMAIN typemap(depkey, tinst) : k \in DOMAIN s.type_aliases
         THEN Raise("TypeError", s)
    ELSE Ok(None, s)

(* self.type_aliases.update(typemap) *)
resolve_bind(s, tinst, depkey) ==
    [s EXCEPT !.type_aliases = Update(@, typemap(depkey, tinst))]

(* resotype = self.canon(depval), (tname,) + ... *)
resolve_resotype(s, tname, tinst, depkey, depval) ==
    Then(self_canon(s, depval), LAMBDA r0 :
    Then(canon_typemap_keys(r0.s, slice(depkey, 1, len(depkey)), <<>>), LAMBDA r1 :
    Then(canon_templated_deps(r1.s, slice(depkey, 1, len(depkey)),
                              slice(tinst, 1, len(tinst)), <<>>), LAMBDA r2 :
         Ok(Tup(<<r0.v, Tup(<<tname>> \o r1.v \o r2.v)>>), r2.s))))

(* the cleanup loop, return resotype, and the two memoizing decorators     *)
(* the value passes on its way back to the caller of canon                 *)
resolve_return(s, tname, tinst, depkey, resotype) ==
    Then(unbind_typemap(s, slice(depkey, 1, len(depkey))), LAMBDA u :
         Ok(resotype,
            [u.s EXCEPT !.cache =
                Put(Put(@, <<"_resolve_dependent_type", <<tname, tinst>>>>, resotype),
                    <<"canon", <<tinst>>>>, resotype)]))

(* a variant of the non-templated branch without the assertion *)
resolve_plain_unasserted(s, tname, tinst, depkey, depval) ==
    Then(self_canon(s, depval), LAMBDA r0 :
    Then(canon_plain_deps(r0.s, slice(depkey, 1, len(depkey)),
                          slice(tinst, 1, len(tinst)), <<>>), LAMBDA r1 :
         Ok(Tup(<<r0.v, Tup(<<tname>> \o r1.v)>>), r1.s)))

(* the non-templated branch of _resolve_dependent_type *)
resolve_plain(s, tname, tinst, depkey, depval) ==
    IF len(tinst) # len(depkey) THEN Raise("AssertionError", s)
    ELSE
    Then(self_canon(s, depval), LAMBDA r0 :
    Then(canon_plain_deps(r0.s, slice(depkey, 1, len(depkey)),
                          slice(tinst, 1, len(tinst)), <<>>), LAMBDA r1 :
         Ok(Tup(<<r0.v, Tup(<<tname>> \o r1.v)>>), r1.s)))

(* TypeSystem._resolve_dependent_type(tname, tinst=None); tinst = None is  *)
(* the call with one argument                                              *)
resolve_dependent_type(s, tname, tinst) ==
    memoize_method(s, "_resolve_dependent_type",
        IF tinst = None THEN <<tname>> ELSE <<tname, tinst>>,
        IF depkeys(s, tname) = {} THEN Raise("IndexError", s)
        ELSE
        Bind(CHOOSE k \in depkeys(s, tname) : TRUE, LAMBDA depkey :
        Then(self_istemplate(s, depkey), LAMBDA it :
             IF tinst = None THEN Ok(depkey, it.s)
             ELSE IF it.v = Bool(TRUE)
                  THEN resolve_templated(it.s, tname, tinst, depkey,
                                         s.refined_types[depkey])
                  ELSE resolve_plain(it.s, tname, tinst, depkey,
                                     s.refined_types[depkey]))))

(* the loop of canon over the slots t[1:1+templen] of a template *)
canon_template_slots(s, slots, filledt) ==
    IF slots = <<>> THEN Ok(filledt, s)
    ELSE IF isNumber(Head(slots))
         THEN canon_template_slots(s, Tail(slots), Append(filledt, Head(slots)))
    ELSE IF isstr(Head(slots))
         THEN Bind(self_canon(s, Head(slots)), LAMBDA r :
                   IF r.e = "ok"
                   THEN canon_template_slots(r.s, Tail(slots), Append(filledt, r.v))
                   ELSE IF r.e = "TypeError"
                        THEN canon_template_slots(r.s, Tail(slots),
                                                  Append(filledt, Head(slots)))
                        ELSE r)
    ELSE IF isSequence(Head(slots))
         THEN Then(IF len(Head(slots)) = 2 /\ inArg(at(Head(slots), 0))
                   THEN self_canon(s, at(Head(slots), 1))
                   ELSE self_canon(s, Head(slots)), LAMBDA r :
                   canon_template_slots(r.s, Tail(slots), Append(filledt, r.v)))
    ELSE Raise("TypeError", s)

(* whether the chain of calls canon(t) -> canon(type_aliases[t]) -> ...     *)
(* comes back to a name it has passed: a call in the chain returns without *)
(* a further call when its key is in the memo, when the name is a base     *)
(* type or when it is no alias.  In the registries of the model an alias   *)
(* chain leaves the strings only through a type that ends it.              *)
RECURSIVE alias_chain_loops(_, _, _)
alias_chain_loops(s, t, seen) ==
    IF ~isstr(t) \/ t \in s.base_types \/ t \notin DOMAIN s.type_aliases THEN FALSE
    ELSE IF t \in seen THEN TRUE
    ELSE IF seen # {} /\ <<"canon", <<t>>>> \in DOMAIN s.cache THEN FALSE
    ELSE alias_chain_loops(s, s.type_aliases[t], seen \cup {t})

(* a variant of the string branch that looks the name up among the        *)
(* refinements before the aliases                                          *)
canon_basestring_refinement_first(s, t) ==
    IF t \in s.base_types THEN Ok(t, s)
    ELSE IF t \in DOMAIN s.refined_types
         THEN Then(self_canon(s, s.refined_types[t]), LAMBDA r :
                   Ok(Tup(<<r.v, t>>), r.s))
    ELSE IF t \in DOMAIN s.type_aliases
         THEN IF alias_chain_loops(s, t, {}) THEN Raise("RuntimeError", s)
              ELSE self_canon(s, s.type_aliases[t])
    ELSE Then(self_isdependent(s, t), LAMBDA d :
              IF d.v = Bool(TRUE) THEN self_resolve_dependent_type(d.s, t, None)
              ELSE Raise("TypeError", d.s))

(* the body of TypeSystem.canon for a string: the recursion of an alias    *)
(* chain that comes back to a name it has passed has no end, and the       *)
(* interpreter stops it with RuntimeError (maximum recursion depth         *)
(* exceeded)                                                               *)
canon_basestring(s, t) ==
    IF t \in s.base_types THEN Ok(t, s)
    ELSE IF t \in DOMAIN s.type_aliases
         THEN IF alias_chain_loops(s, t, {}) THEN Raise("RuntimeError", s)
              ELSE self_canon(s, s.type_aliases[t])
    ELSE IF t \in DOMAIN s.refined_types
         THEN Then(self_canon(s, s.refined_types[t]), LAMBDA r :
                   Ok(Tup(<<r.v, t>>), r.s))
    ELSE Then(self_isdependent(s, t), LAMBDA d :
              IF d.v = Bool(TRUE) THEN self_resolve_dependent_type(d.s, t, None)
              ELSE Raise("TypeError", d.s))

(* the template branch of TypeSystem.canon for a sequence *)
canon_template(s, t) ==
    Then(canon_template_slots(s, slice(t, 1, 1 + len(s.template_types[at(t, 0)])),
                              <<at(t, 0)>>), LAMBDA r :
         Ok(Tup(Append(r.v, IF len(t) = 1 + len(s.template_types[at(t, 0)])
                            THEN IntV(0) ELSE last(t))), r.s))

(* the body of TypeSystem.canon for a sequence *)
canon_Sequence(s, t) ==
    IF len(t) = 0 THEN Raise("IndexError", s)
    ELSE IF ~isstr(at(t, 0)) /\ ~isSequence(at(t, 0)) THEN Raise("TypeError", s)
    ELSE
    Then(self_isdependent(s, at(t, 0)), LAMBDA d :
         IF d.v = Bool(TRUE) THEN self_resolve_dependent_type(d.s, at(t, 0), t)
         ELSE IF at(t, 0) \in DOMAIN d.s.template_types THEN canon_template(d.s, t)
         ELSE Then(self_canon(d.s, at(t, 0)), LAMBDA r :
                   Ok(Tup(<<r.v, IF len(t) = 1 THEN IntV(0) ELSE last(t)>>), r.s)))

(* TypeSystem.canon *)
canon(s, t) ==
    memoize_method(s, "canon", <<t>>,
        IF isstr(t) THEN canon_basestring(s, t)
        ELSE IF isSequence(t) THEN canon_Sequence(s, t)
        ELSE Raise("TypeError", s))

(* a variant of the return below with its two branches exchanged *)
strip_pair_exchanged(sp0, t1) ==
    IF isNumber(t1) /\ t1[2] = 0 THEN sp0 ELSE Ok(Tup(<<sp0.v, IntV(0)>>), sp0.s)

(* return (sp0, 0) if t[1] == 0 else sp0 *)
strip_pair(sp0, t1) ==
    IF isNumber(t1) /\ t1[2] = 0 THEN Ok(Tup(<<sp0.v, IntV(0)>>), sp0.s) ELSE sp0

(* TypeSystem.strip_predicates *)
strip_predicates(s, t) ==
    memoize_method(s, "strip_predicates", <<t>>,
        Then(self_canon(s, t), LAMBDA c :
             IF isstr(c.v) THEN c
             ELSE IF isSequence(c.v)
                  THEN IF len(c.v) = 2
                       THEN Then(self_strip_predicates(c.s, at(c.v, 0)), LAMBDA sp0 :
                                 strip_pair(sp0, at(c.v, 1)))
                       ELSE Ok(Tup(Append(slice(c.v, 0, len(c.v) - 1), IntV(0))), c.s)
                  ELSE Raise("TypeError", c.s)))

(* while not isinstance(t0, basestring): t0 = t0[0] *)
RECURSIVE basename_walk(_, _)
basename_walk(s, t0) ==
    IF isstr(t0) THEN Ok(t0, s)
    ELSE IF ~isSequence(t0) THEN Raise("TypeError", s)
    ELSE IF len(t0) = 0 THEN Raise("IndexError", s)
    ELSE basename_walk(s, at(t0, 0))

(* TypeSystem.basename *)
basename(s, t) ==
    memoize_method(s, "basename", <<t>>,
        Then(self_canon(s, t), LAMBDA c :
             IF isstr(c.v) THEN c
             ELSE IF isSequence(c.v) THEN basename_walk(c.s, c.v)
             ELSE Raise("TypeError", c.s)))

-----------------------------------------------------------------------------
(* C/C++ spellings.  A text is a sequence of fragments; str.format and     *)
(* str.join concatenate fragments.                                         *)

(* str(x) for a number *)
str_Number(x) ==
    IF isint(x) THEN <<ToString(x[2])>>
    ELSE <<ToString(x[2] \div 10), ".", ToString(x[2] % 10)>>

(* '[{0}]'.format(t[-1]) if isinstance(t[-1], int) else t[-1] *)
predicate_text(p) ==
    IF isint(p) THEN <<"[">> \o str_Number(p) \o <<"]">>
    ELSE IF isstr(p) THEN <<p[2]>>
    ELSE IF isNumber(p) THEN str_Number(p)
    ELSE <<"<object>">>

(* TypeSystem._cpp_type_add_predicate *)
cpp_type_add_predicate(t, lastp) ==
    IF lastp = <<"const">> THEN lastp \o <<" ">> \o t ELSE t \o <<" ">> \o lastp

(* TypeSystem._cpp_var_name *)
cpp_var_name(s, var) ==
    IF ~isstr(var) THEN Raise("TypeError", s)
    ELSE IF var \in DOMAIN s.variable_namespace /\ s.variable_namespace[var] # <<>>
         THEN Ok(Txt(s.variable_namespace[var] \o <<"::", var[2]>>), s)
         ELSE Ok(Txt(<<var[2]>>), s)

(* TypeSystem.cpp_literal *)
cpp_literal(s, lit) ==
    memoize_method(s, "cpp_literal", <<lit>>,
        IF isNumber(lit) THEN Ok(Txt(str_Number(lit)), s)
        ELSE IF isstr(lit) THEN Ok(Txt(<<"'", lit[2], "'">>), s)
        ELSE Raise("UnboundLocalError", s))

(* ', '.join(template_filling) *)
RECURSIVE join(_)
join(xs) ==
    IF xs = <<>> THEN <<>>
    ELSE IF Len(xs) = 1 THEN xs[1]
    ELSE xs[1] \o <<", ">> \o join(Tail(xs))

(* try: x = self.cpp_type(x) except TypeError: x = self._cpp_var_name(x) *)
cpp_guess(s, x) ==
    Bind(self_cpp_type(s, x), LAMBDA g :
         IF g.e = "TypeError" THEN cpp_var_name(g.s, x) ELSE g)

(* one turn of the loop of cpp_type over zip(t[1:-1], kinds) *)
cpp_template_item(s, x, kind) ==
    IF kind = ArgKind("LIT") THEN self_cpp_literal(s, x)
    ELSE IF kind = ArgKind("TYPE") THEN self_cpp_type(s, x)
    ELSE IF kind = ArgKind("VAR") THEN cpp_var_name(s, x)
    ELSE IF isNumber(x) THEN Ok(Txt(str_Number(x)), s)
    ELSE cpp_guess(s, x)

(* the loop of cpp_type over zip(t[1:-1], kinds); kinds = None stands for  *)
(* the default ((Arg.NONE,),)*(tlen-2), none of whose items is an Arg flag *)
RECURSIVE cpp_template_filling(_, _, _, _)
cpp_template_filling(s, xs, kinds, filling) ==
    IF xs = <<>> \/ (kinds # None /\ len(kinds) = 0) THEN Ok(filling, s)
    ELSE Then(cpp_template_item(s, Head(xs),
                                IF kinds = None THEN None ELSE at(kinds, 0)),
              LAMBDA r :
              cpp_template_filling(r.s, Tail(xs),
                  IF kinds = None THEN None ELSE Tup(Tail(elems(kinds))),
                  Append(filling, r.v[2])))

(* cpp_type for a canonical tuple of length 2 *)
cpp_type_predicated(s, t) ==
    IF isNumber(at(t, 1)) /\ at(t, 1)[2] = 0 THEN self_cpp_type(s, at(t, 0))
    ELSE
    Then(self_isrefinement(s, at(t, 1)), LAMBDA ir :
         IF ir.v = Bool(TRUE)
         THEN IF isSequence(at(t, 1)) /\ at(at(t, 1), 0) \in DOMAIN ir.s.cpp_types
              THEN Ok(lazy_getitem(ir.s, ir.s.cpp_types, at(at(t, 1), 0)), ir.s)
              ELSE self_cpp_type(ir.s, at(t, 0))
         ELSE Then(self_cpp_type(ir.s, at(t, 0)), LAMBDA b :
                   Ok(Txt(cpp_type_add_predicate(b.v[2], predicate_text(last(t)))),
                      b.s)))

(* '{0}< {1} >'.format(template_name, ', '.join(template_filling)) and the *)
(* predicate that follows it                                               *)
cpp_template_text(template_name, filling, lastp) ==
    IF isNumber(lastp) /\ lastp[2] = 0
    THEN Txt(template_name[2] \o <<"< ">> \o join(filling) \o <<" >">>)
    ELSE Txt(cpp_type_add_predicate(
                 template_name[2] \o <<"< ">> \o join(filling) \o <<" >">>,
                 predicate_text(lastp)))

(* cpp_type for a canonical tuple of length 3 or more *)
cpp_type_templated(s, t) ==
    IF at(t, 0) \notin DOMAIN s.template_types THEN Raise("AssertionError", s)
    ELSE IF len(t) # len(s.template_types[at(t, 0)]) + 2 THEN Raise("AssertionError", s)
    ELSE IF at(t, 0) \notin DOMAIN s.cpp_types THEN Raise("KeyError", s)
    ELSE Then(cpp_template_filling(s, slice(t, 1, len(t) - 1),
                  IF t \in DOMAIN s.argument_kinds THEN s.argument_kinds[t] ELSE None,
                  <<>>), LAMBDA f :
              Ok(cpp_template_text(lazy_getitem(s, s.cpp_types, at(t, 0)), f.v, last(t)),
                 f.s))

(* TypeSystem.cpp_type; a canonical string that is no base type falls to   *)
(* the tuple code, whose assertion on t[0] fails                           *)
cpp_type(s, t) ==
    memoize_method(s, "cpp_type", <<t>>,
        Then(self_canon(s, t), LAMBDA c :
             IF isstr(c.v)
             THEN IF c.v \in c.s.base_types
                  THEN IF c.v \in DOMAIN c.s.cpp_types
                       THEN Ok(lazy_getitem(c.s, c.s.cpp_types, c.v), c.s)
                       ELSE Raise("KeyError", c.s)
                  ELSE Raise("AssertionError", c.s)
             ELSE IF len(c.v) = 2 THEN cpp_type_predicated(c.s, c.v)
             ELSE cpp_type_templated(c.s, c.v)))

-----------------------------------------------------------------------------
(* Registration API.  A keyword argument that is not passed is None.       *)

(* _ensure_importable: a name or None becomes ((x,),), a tuple that starts  *)
(* with a name or None becomes (x,), anything else is returned as it is;   *)
(* the import tuples of the model are never empty                          *)
ensure_importable(x) ==
    IF isstr(x) \/ x = None THEN Tup(<<Tup(<<x>>)>>)
    ELSE IF isSequence(x) /\ len(x) > 0 /\ (isstr(at(x, 0)) \/ at(x, 0) = None)
         THEN Tup(<<x>>)
    ELSE x

(* tuple(x) for a str or a tuple *)
as_tuple(x) == IF isstr(x) THEN Tup(<<x>>) ELSE x

(* if v is not None: self.<field>[key] = v *)
SetIf(s, field, key, v) ==
    IF v = None THEN s ELSE [s EXCEPT ![field] = Put(@, key, v)]

(* the class-name part of register_class: base_types / template_types *)
register_class_name(s, name, template_args) ==
    IF template_args = None THEN Ok(None, [s EXCEPT !.base_types = @ \cup {name}])
    ELSE IF isSequence(template_args) \/ isstr(template_args)
         THEN IF isstr(template_args)
              THEN IF template_args[2] = ""
                   THEN Ok(None, [s EXCEPT !.base_types = @ \cup {name}])
                   ELSE Raise("TypeError", s)
              ELSE IF len(template_args) = 0
                   THEN Ok(None, [s EXCEPT !.base_types = @ \cup {name}])
                   ELSE Ok(None, [s EXCEPT !.template_types = Put(@, name, template_args)])
         ELSE Ok(None, s)

(* (cython_py2c, False) for a string converter *)
py2c_pair(x) == IF isstr(x) THEN Tup(<<x, Bool(FALSE)>>) ELSE x

(* the table assignments of register_class that follow the class name *)
register_class_tables(s, kw) ==
    [s EXCEPT
        !.cython_ctypes = IF kw.cython_c_type = None THEN @
                          ELSE Put(@, kw.name, kw.cython_c_type),
        !.cython_cytypes = IF kw.cython_cy_type = None THEN @
                           ELSE Put(@, kw.name, kw.cython_cy_type),
        !.cython_pytypes = IF kw.cython_py_type = None THEN @
                           ELSE Put(@, kw.name, kw.cython_py_type),
        !.from_pytypes = IF kw.from_pytype = None THEN @
                         ELSE Put(@, kw.name, kw.from_pytype),
        !.cpp_types = IF kw.cpp_type = None THEN @ ELSE Put(@, kw.name, kw.cpp_type),
        !.humannames = IF kw.human_name = None THEN @
                       ELSE Put(@, kw.name, kw.human_name),
        !.cython_cimports = IF kw.cython_cimport = None THEN @
                            ELSE Put(@, kw.name, ensure_importable(kw.cython_cimport)),
        !.cython_cyimports = IF kw.cython_cyimport = None THEN @
                             ELSE Put(@, kw.name, ensure_importable(kw.cython_cyimport)),
        !.cython_pyimports = IF kw.cython_pyimport = None THEN @
                             ELSE Put(@, kw.name, ensure_importable(kw.cython_pyimport)),
        !.cython_c2py_conv = IF kw.cython_c2py = None THEN @
                             ELSE Put(@, kw.name, as_tuple(kw.cython_c2py)),
        !.cython_py2c_conv = IF kw.cython_py2c = None THEN @
                             ELSE Put(@, kw.name, py2c_pair(kw.cython_py2c)),
        !.cython_classnames = IF kw.cython_template_class_name = None THEN @
                              ELSE Put(@, kw.name, kw.cython_template_class_name),
        !.cython_functionnames = IF kw.cython_template_function_name = None THEN @
                                 ELSE Put(@, kw.name, kw.cython_template_function_name)]

(* TypeSystem.register_class *)
register_class(s, kw) ==
    Then(register_class_name(s, kw.name, kw.template_args), LAMBDA r :
         Ok(None, register_class_tables(r.s, kw)))

(* the tables deregister_class pops name from *)
ClassTables ==
    <<"cython_ctypes", "cython_cytypes", "cython_pytypes", "from_pytypes", "cpp_types",
      "humannames", "cython_cimports", "cython_cyimports", "cython_pyimports",
      "cython_c2py_conv", "cython_py2c_conv", "cython_classnames">>

(* self.<field>.pop(key, None) for every field *)
RECURSIVE PopAll(_, _, _)
PopAll(s, fields, key) ==
    IF fields = <<>> THEN s
    ELSE PopAll([s EXCEPT ![Head(fields)] = Pop(@, key)], Tail(fields), key)

(* TypeSystem.deregister_class *)
deregister_class(s, name) ==
    IF name \in s.base_types
    THEN Ok(None, clearmemo(PopAll([s EXCEPT !.base_types = @ \ {name}],
                                   ClassTables, name)))
    ELSE IF name \in DOMAIN s.template_types
    THEN Ok(None, clearmemo(PopAll([s EXCEPT !.template_types = Pop(@, name)],
                                   ClassTables, name)))
    ELSE Raise("TypeError", s)

(* TypeSystem.register_refinement *)
register_refinement(s, kw) ==
    Ok(None,
       [s EXCEPT
           !.refined_types = Put(@, kw.name, kw.refinementof),
           !.cython_cimports = Put(@, kw.name, ensure_importable(kw.cython_cimport)),
           !.cython_cyimports = Put(@, kw.name, ensure_importable(kw.cython_cyimport)),
           !.cython_pyimports = Put(@, kw.name, ensure_importable(kw.cython_pyimport)),
           !.cython_c2py_conv = IF kw.cython_c2py = None THEN @
                                ELSE Put(@, kw.name, as_tuple(kw.cython_c2py)),
           !.cython_py2c_conv = IF kw.cython_py2c = None THEN @
                                ELSE Put(@, kw.name, py2c_pair(kw.cython_py2c))])

(* TypeSystem.deregister_refinement *)
deregister_refinement(s, name) ==
    Ok(None, clearmemo(PopAll(s, <<"refined_types", "cython_c2py_conv", "cython_py2c_conv",
                                   "cython_cimports", "cython_cyimports",
                                   "cython_pyimports">>, name)))

(* TypeSystem.register_specialization *)
register_specialization(s, kw) ==
    Then(self_canon(s, kw.t), LAMBDA c :
         Ok(None,
            [c.s EXCEPT
                !.cython_ctypes = IF kw.cython_c_type = None THEN @
                                  ELSE Put(@, c.v, kw.cython_c_type),
                !.cython_cytypes = IF kw.cython_cy_type = None THEN @
                                   ELSE Put(@, c.v, kw.cython_cy_type),
                !.cython_pytypes = IF kw.cython_py_type = None THEN @
                                   ELSE Put(@, c.v, kw.cython_py_type),
                !.cython_cimports = IF kw.cython_cimport = None THEN @
                                    ELSE Put(@, c.v, kw.cython_cimport),
                !.cython_cyimports = IF kw.cython_cyimport = None THEN @
                                     ELSE Put(@, c.v, kw.cython_cyimport),
                !.cython_pyimports = IF kw.cython_pyimport = None THEN @
                                     ELSE Put(@, c.v, kw.cython_pyimport)]))

(* TypeSystem.deregister_specialization *)
deregister_specialization(s, t) ==
    Then(self_canon(s, t), LAMBDA c :
         Ok(None, clearmemo(PopAll(c.s, <<"cython_ctypes", "cython_cytypes",
                                          "cython_pytypes", "cython_cimports",
                                          "cython_cyimports", "cython_pyimports">>,
                                   c.v))))

(* TypeSystem.register_argument_kinds; the value tells whether the         *)
(* RuntimeWarning was issued                                               *)
register_argument_kinds(s, t, argkinds) ==
    Then(self_canon(s, t), LAMBDA c :
         Ok(Bool(c.v \in DOMAIN c.s.argument_kinds /\ c.s.argument_kinds[c.v] # argkinds),
            [c.s EXCEPT !.argument_kinds = Put(@, c.v, argkinds)]))

(* TypeSystem.deregister_argument_kinds *)
deregister_argument_kinds(s, t) ==
    Then(self_canon(s, t), LAMBDA c :
         Ok(None, [c.s EXCEPT !.argument_kinds = Pop(@, c.v)]))

(* TypeSystem.isenum *)
isenum(s, t) ==
    memoize_method(s, "isenum", <<t>>,
        Bind(self_canon(s, t), LAMBDA c :
             IF c.e = "TypeError" THEN Ok(Bool(FALSE), c.s)
             ELSE IF c.e # "ok" THEN c
             ELSE Ok(Bool(isSequence(c.v) /\ at(c.v, 0) = Str("int32")
                          /\ isSequence(at(c.v, 1)) /\ len(at(c.v, 1)) > 0
                          /\ at(at(c.v, 1), 0) = Str("enum")), c.s)))

(* TypeSystem.register_variable_namespace for one name: the assignment and *)
(* the isenum(t) test that follows it                                      *)
register_one_namespace(s, name, namespace, t) ==
    self_isenum([s EXCEPT !.variable_namespace = Put(@, name, namespace)], t)

(* for n, _ in t[1][2][2]: self.register_variable_namespace(n, namespace) *)
RECURSIVE register_enum_names(_, _, _)
register_enum_names(s, pairs, namespace) ==
    IF pairs = <<>> THEN Ok(None, s)
    ELSE Then(register_one_namespace(s, at(Head(pairs), 0), namespace, None),
              LAMBDA r : register_enum_names(r.s, Tail(pairs), namespace))

(* TypeSystem.register_variable_namespace *)
register_variable_namespace(s, name, namespace, t) ==
    Then(register_one_namespace(s, name, namespace, t), LAMBDA r :
         IF r.v = Bool(FALSE) THEN Ok(None, r.s)
         ELSE Then(self_canon(r.s, t), LAMBDA c :
                   register_enum_names(c.s, elems(at(at(at(c.v, 1), 2), 2)), namespace)))

(* the names in TypeSystem.datafields *)
datafields ==
    {"base_types", "template_types", "refined_types", "humannames", "extra_types",
     "dtypes", "stlcontainers", "argument_kinds", "variable_namespace", "type_aliases",
     "cpp_types", "numpy_types", "from_pytypes", "cython_ctypes", "cython_cytypes",
     "cython_pytypes", "cython_cimports", "cython_cyimports", "cython_pyimports",
     "cython_functionnames", "cython_classnames", "cython_c2py_conv",
     "cython_py2c_conv"}

(* TypeSystem.update called with keyword arguments: toup maps a field     *)
(* name to                                                                 *)
(* [kind |-> "Mapping" | "Set" | "other", val |-> the value]               *)
RECURSIVE update_items(_, _, _)
update_items(s, toup, ks) ==
    IF ks = {} THEN s
    ELSE Bind(CHOOSE x \in ks : TRUE, LAMBDA k :
              update_items(
                  IF toup[k].kind = "Mapping" THEN [s EXCEPT ![k] = Update(@, toup[k].val)]
                  ELSE IF toup[k].kind = "Set" THEN [s EXCEPT ![k] = @ \cup toup[k].val]
                  ELSE [s EXCEPT ![k] = toup[k].val],
                  toup, ks \ {k}))

(* TypeSystem.update *)
update(s, toup) ==
    IF \E k \in DOMAIN toup : k \notin datafields THEN Raise("AttributeError", s)
    ELSE Ok(None, update_items(s, toup, DOMAIN toup))

-----------------------------------------------------------------------------
(* Scoped swaps.  A frame is the suspended generator of a context manager: *)
(* the attribute it overrides and its local variable old.                  *)

(* a variant of the entry that leaves the memo as it is *)
swap_enter_keeping_memo(s, attr, new) == [s EXCEPT ![attr] = new]

(* swap_dtypes / swap_stlcontainers up to the yield *)
swap_enter(s, attr, new) == clearmemo([s EXCEPT ![attr] = new])

(* swap_dtypes / swap_stlcontainers after the yield, when the block ends   *)
(* normally                                                                *)
swap_exit(s, attr, old) == [clearmemo(s) EXCEPT ![attr] = old]

(* the block raises: contextmanager throws the exception into the          *)
(* generator at the yield, which has no try/finally, so nothing after the  *)
(* yield runs                                                              *)
swap_throw(s, attr, old) == s

-----------------------------------------------------------------------------
(* local_classes.  The spellings of the three Cython tables are texts      *)
(* whose items "." are the dots of a qualified name.                       *)

(* '.' in value *)
hasdot(toks) == \E i \in 1..Len(toks) : toks[i] = "."

(* the place value.rsplit('.', 1) splits at *)
lastdot(toks) ==
    CHOOSE i \in 1..Len(toks) :
        toks[i] = "." /\ \A j \in (i + 1)..Len(toks) : toks[j] # "."

(* _undot_class_name(name, d) for d = self.<field>; the value is v1 or '' *)
undot_class_name(s, name, field) ==
    Bind(lazy_getitem(s, s[field], name), LAMBDA value :
         IF value[1] # "x" THEN Raise("TypeError", s)
         ELSE IF ~hasdot(value[2]) THEN Ok(Txt(<<>>), s)
         ELSE Ok(Txt(SubSeq(value[2], 1, lastdot(value[2]) - 1)),
                 [s EXCEPT ![field] =
                     Put(@, name, Txt(SubSeq(value[2], lastdot(value[2]) + 1,
                                             Len(value[2]))))]))

(* _redot_class_name(name, d, value) for d = self.<field> *)
redot_class_name(s, name, field, value) ==
    IF Len(value[2]) = 0 THEN Ok(None, s)
    ELSE Bind(lazy_getitem(s, s[field], name), LAMBDA cur :
              IF cur[1] # "x" THEN Raise("TypeError", s)
              ELSE Ok(None, [s EXCEPT ![field] =
                                 Put(@, name, Txt(value[2] \o <<".">> \o cur[2]))]))

(* the typeset letters local_classes tests and the table of each *)
LocalTables ==
    <<[kind |-> "c", field |-> "cython_ctypes"],
      [kind |-> "cy", field |-> "cython_cytypes"],
      [kind |-> "py", field |-> "cython_pytypes"]>>

(* one if statement of the loop before the yield *)
local_undot_kind(s, saved, name, typesets, k) ==
    IF k.kind \in typesets /\ name \in DOMAIN s[k.field]
    THEN Then(undot_class_name(s, name, k.field), LAMBDA r :
              Ok(Put(saved, <<name, k.kind>>, r.v), r.s))
    ELSE Ok(saved, s)

(* the loop before the yield; the value is the dict saved *)
RECURSIVE local_undot(_, _, _, _)
local_undot(s, saved, names, typesets) ==
    IF names = <<>> THEN Ok(saved, s)
    ELSE Then(local_undot_kind(s, saved, Head(names), typesets, LocalTables[1]),
         LAMBDA a :
         Then(local_undot_kind(a.s, a.v, Head(names), typesets, LocalTables[2]),
         LAMBDA b :
         Then(local_undot_kind(b.s, b.v, Head(names), typesets, LocalTables[3]),
         LAMBDA c : local_undot(c.s, c.v, Tail(names), typesets))))

(* one if statement of the loop after the yield *)
local_redot_kind(s, saved, name, typesets, k) ==
    IF k.kind \in typesets /\ name \in DOMAIN s[k.field]
    THEN IF <<name, k.kind>> \in DOMAIN saved
         THEN redot_class_name(s, name, k.field, saved[<<name, k.kind>>])
         ELSE Raise("KeyError", s)
    ELSE Ok(None, s)

(* the loop after the yield *)
RECURSIVE local_redot(_, _, _, _)
local_redot(s, saved, names, typesets) ==
    IF names = <<>> THEN Ok(None, s)
    ELSE Then(local_redot_kind(s, saved, Head(names), typesets, LocalTables[1]),
         LAMBDA a :
         Then(local_redot_kind(a.s, saved, Head(names), typesets, LocalTables[2]),
         LAMBDA b :
         Then(local_redot_kind(b.s, saved, Head(names), typesets, LocalTables[3]),
         LAMBDA c : local_redot(c.s, saved, Tail(names), typesets))))

(* local_classes up to the yield; the value is the dict saved *)
local_classes_enter(s, classnames, typesets) ==
    Then(local_undot(s, EmptyDict, classnames, typesets), LAMBDA r :
         Ok(r.v, clearmemo(r.s)))

(* local_classes after the yield, when the block ends normally *)
local_classes_exit(s, saved, classnames, typesets) ==
    Then(local_redot(s, saved, classnames, typesets), LAMBDA r :
         Ok(None, clearmemo(r.s)))

(* the block raises: the exception is thrown into the generator at the     *)
(* yield, which has no try/finally, so nothing after the yield runs        *)
local_classes_throw(s, saved, classnames, typesets) == s

-----------------------------------------------------------------------------
(* Converter lookup.  An entry of cython_c2py_conv / cython_py2c_conv is a *)
(* tuple of templates, None, NotImplemented, or a callable that computes   *)
(* the tuple from (t, ts).                                                 *)

NotImplemented == <<"o", "NotImplemented">>
Callable(f) == <<"c", f>>

(* callable(x) *)
callable(v) == v[1] = "c"

(* c2pyt(t, self) / py2ct(t, self) for the callables of the model's tables *)
(*   wrap   = lambda t, ts: ('{0}.wrap({{var}})'.format(ts.dtypes),)       *)
(*   unwrap = lambda t, ts: ('{0}.unwrap({{var}})'.format(ts.dtypes),      *)
(*                           False)                                        *)
apply_callable(f, t, s) ==
    IF f = Callable("wrap")
    THEN Tup(<<Txt(<<s.dtypes, ".wrap(", "{var}", ")">>)>>)
    ELSE Tup(<<Txt(<<s.dtypes, ".unwrap(", "{var}", ")">>), Bool(FALSE)>>)

(* _LazyConverterDict.__getitem__: the entry stored under the key, and     *)
(* KeyError for a key that is not in the table                             *)
conv_getitem(s, field, k) ==
    IF k \in DOMAIN s[field] THEN Ok(s[field][k], s) ELSE Raise("KeyError", s)

(* while tkey not in conv and not isinstance(tkey, basestring):            *)
(*     tkey = tkey[1] if (0 < len(tkey) and self.isrefinement(tkey[1]))    *)
(*            else tkey[0]                                                 *)
(* the value is the tkey the loop ends with                                *)
RECURSIVE conv_walk_refinements(_, _, _)
conv_walk_refinements(s, field, tkey) ==
    IF tkey \in DOMAIN s[field] \/ isstr(tkey) THEN Ok(tkey, s)
    ELSE IF ~isSequence(tkey) THEN Raise("TypeError", s)
    ELSE IF len(tkey) < 2 THEN Raise("IndexError", s)
    ELSE Then(self_isrefinement(s, at(tkey, 1)), LAMBDA r :
              conv_walk_refinements(r.s, field,
                  IF r.v = Bool(TRUE) THEN at(tkey, 1) ELSE at(tkey, 0)))

(* while tkey not in conv and not isinstance(tkey, basestring):            *)
(*     tkey = tkey[0]                                                      *)
RECURSIVE conv_walk_heads(_, _, _)
conv_walk_heads(s, field, tkey) ==
    IF tkey \in DOMAIN s[field] \/ isstr(tkey) THEN Ok(tkey, s)
    ELSE IF ~isSequence(tkey) THEN Raise("TypeError", s)
    ELSE IF len(tkey) = 0 THEN Raise("IndexError", s)
    ELSE conv_walk_heads(s, field, at(tkey, 0))

(* the two loops: predicates and refinements first; when that ends at a    *)
(* key with no entry, heads from t again                                   *)
conv_find(s, field, t) ==
    Then(conv_walk_refinements(s, field, t), LAMBDA w :
         IF w.v \in DOMAIN w.s[field] THEN w ELSE conv_walk_heads(w.s, field, t))

(* a variant that stores what the callable computes under the key the      *)
(* entry was found at                                                      *)
conv_materialize_at_found_key(s, field, t, tkey) ==
    Then(conv_getitem(s, field, tkey), LAMBDA g :
         IF callable(g.v)
         THEN Ok(apply_callable(g.v, t, s),
                 [s EXCEPT ![field] = Put(@, tkey, apply_callable(g.v, t, s))])
         ELSE g)

(* c2pyt = conv[tkey]                                                      *)
(* if callable(c2pyt): conv[t] = c2pyt(t, self); c2pyt = conv[t]           *)
conv_materialize(s, field, t, tkey) ==
    Then(conv_getitem(s, field, tkey), LAMBDA g :
         IF callable(g.v)
         THEN Ok(apply_callable(g.v, t, s),
                 [s EXCEPT ![field] = Put(@, t, apply_callable(g.v, t, s))])
         ELSE g)

(* TypeSystem.cython_c2py_getitem *)
cython_c2py_getitem(s, t) ==
    memoize_method(s, "cython_c2py_getitem", <<t>>,
        Then(self_canon(s, t), LAMBDA c :
        Then(conv_find(c.s, "cython_c2py_conv", c.v), LAMBDA k :
             conv_materialize(k.s, "cython_c2py_conv", c.v, k.v))))

(* typestr.__init__(t, ts): ts.canon(t) and ts.strip_predicates(t) *)
typestr_init(s, t) ==
    Then(self_canon(s, t), LAMBDA a :
    Then(self_strip_predicates(a.s, t), LAMBDA b : Ok(None, b.s)))

(* template.format with the keywords template_kw, for a template that    *)
(* names no attribute of t: every item that is a key of kw is replaced by *)
(* its text                                                                *)
RECURSIVE format_template(_, _)
format_template(toks, kw) ==
    IF toks = <<>> THEN <<>>
    ELSE (IF Head(toks) \in DOMAIN kw THEN kw[Head(toks)] ELSE <<Head(toks)>>)
         \o format_template(Tail(toks), kw)

(* template_kw of cython_c2py and cython_py2c called with a name alone *)
template_kw(name, lasttext) ==
    ("{var}" :> <<name>>) @@ ("{proxy_name}" :> <<name, "_proxy">>)
    @@ ("{cache_name}" :> <<"self", ".", "_", name>>) @@ ("{last}" :> lasttext)

(* cython_c2py from tstr = self.typestr(t, self) on, with view and cached  *)
(* left True (ind == 2), for a tuple of one template that holds no         *)
(* np.npy_intp; longer tuples are rendered through tstr.cython_cytype,     *)
(* which is outside this model                                             *)
c2py_render(s, name, c2pyt) ==
    IF ~isSequence(c2pyt) THEN Raise("TypeError", s)
    ELSE IF len(c2pyt) # 1 THEN Raise("NotModelled", s)
    ELSE IF at(c2pyt, 0)[1] # "x" THEN Raise("TypeError", s)
    ELSE IF \E i \in 1..Len(at(c2pyt, 0)[2]) : at(c2pyt, 0)[2][i] = "np.npy_intp"
         THEN Raise("NotModelled", s)
    ELSE IF \E i \in 1..Len(at(c2pyt, 0)[2]) : at(c2pyt, 0)[2][i] = "{proxy_name}"
         THEN Ok(Tup(<<None, Txt(format_template(at(c2pyt, 0)[2], template_kw(name, <<>>))),
                       Txt(<<name, "_proxy">>), Bool(FALSE)>>), s)
    ELSE Ok(Tup(<<None, None,
                  Txt(format_template(at(c2pyt, 0)[2], template_kw(name, <<>>))),
                  Bool(FALSE)>>), s)

(* TypeSystem.cython_c2py(name, t) *)
cython_c2py(s, name, t) ==
    memoize_method(s, "cython_c2py", <<name, t>>,
        Then(self_canon(s, t), LAMBDA c :
        Then(self_cython_c2py_getitem(c.s, c.v), LAMBDA g :
             IF g.v = NotImplemented
             THEN IF isstr(c.v) THEN Raise("NotImplementedError", g.s)
                  ELSE Raise("TypeError", g.s)
             ELSE Then(typestr_init(g.s, c.v), LAMBDA y :
                       c2py_render(y.s, name, g.v)))))

(* the text last of cython_py2c *)
py2c_last(s, t) ==
    IF isstr(t) THEN Ok(<<>>, s)
    ELSE IF len(t) = 0 THEN Raise("IndexError", s)
    ELSE IF isNumber(last(t)) /\ last(t)[2] = 0 THEN Ok(<<>>, s)
    ELSE Then(self_isrefinement(s, last(t)), LAMBDA r :
              IF r.v = Bool(TRUE) THEN Ok(<<>>, r.s)
              ELSE IF isint(last(t)) THEN Ok(<<" [">> \o str_Number(last(t)) \o <<"]">>, r.s)
              ELSE IF isstr(last(t)) THEN Ok(<<" ", last(t)[2]>>, r.s)
              ELSE Raise("TypeError", r.s))

(* cython_py2c from body_template, rtn_template = py2ct on, for a key that *)
(* is no dependent refinement and an empty return template; the other     *)
(* branches render through cython_ctype and tstr.cython_cytype, which are  *)
(* outside this model                                                      *)
py2c_render(s, name, t, tkey, py2ct, lasttext) ==
    IF ~isSequence(py2ct) THEN Raise("TypeError", s)
    ELSE IF len(py2ct) # 2 THEN Raise("ValueError", s)
    ELSE Then(typestr_init(s, t), LAMBDA y :
         Then(self_isdependent(y.s, tkey), LAMBDA d :
              IF d.v = Bool(TRUE) THEN Raise("NotModelled", d.s)
              ELSE IF at(py2ct, 0)[1] # "x" THEN Raise("AttributeError", d.s)
              ELSE IF at(py2ct, 1) \notin {Bool(FALSE), None, Txt(<<>>)}
                   THEN Raise("NotModelled", d.s)
              ELSE Ok(Tup(<<None, None,
                            Txt(format_template(at(py2ct, 0)[2],
                                                template_kw(name, lasttext)))>>), d.s)))

(* TypeSystem.cython_py2c(name, t) *)
cython_py2c(s, name, t) ==
    memoize_method(s, "cython_py2c", <<name, t>>,
        Then(self_canon(s, t), LAMBDA c :
        Then(py2c_last(c.s, c.v), LAMBDA l :
        Then(conv_find(l.s, "cython_py2c_conv", c.v), LAMBDA k :
        Then(conv_materialize(k.s, "cython_py2c_conv", c.v, k.v), LAMBDA p :
             IF p.v = NotImplemented \/ p.v = None
             THEN Raise("NotImplementedError", p.s)
             ELSE py2c_render(p.s, name, c.v, k.v, p.v, l.v))))))

-----------------------------------------------------------------------------
(* the method table of the class *)
call(s, meth, args) ==
    CASE meth = "istemplate" -> istemplate(s, args[1])
      [] meth = "isdependent" -> isdependent(s, args[1])
      [] meth = "isrefinement" -> isrefinement(s, args[1])
      [] meth = "isenum" -> isenum(s, args[1])
      [] meth = "canon" -> canon(s, args[1])
      [] meth = "_resolve_dependent_type" ->
            resolve_dependent_type(s, args[1], args[2])
      [] meth = "strip_predicates" -> strip_predicates(s, args[1])
      [] meth = "basename" -> basename(s, args[1])
      [] meth = "cpp_type" -> cpp_type(s, args[1])
      [] meth = "cpp_literal" -> cpp_literal(s, args[1])
      [] meth = "cython_c2py_getitem" -> cython_c2py_getitem(s, args[1])
      [] meth = "cython_c2py" -> cython_c2py(s, args[1], args[2])
      [] meth = "cython_py2c" -> cython_py2c(s, args[1], args[2])

-----------------------------------------------------------------------------
(* The type universe of the model *)

int32 == Str("int32")
Pt == Str("Pt")
vtype == Str("vtype")

(* ('intrange', ('low', 'int32'), ('high', 'int32')) *)
intrange_sig ==
    Tup(<<Str("intrange"), Tup(<<Str("low"), int32>>), Tup(<<Str("high"), int32>>)>>)

(* ('range', 'vtype', ('low', 'vtype'), ('high', 'vtype')) *)
range_sig ==
    Tup(<<Str("range"), vtype, Tup(<<Str("low"), vtype>>), Tup(<<Str("high"), vtype>>)>>)

(* TypeSystem.__init__ with caller-supplied tables: two base types (Pt     *)
(* spelled through the dtypes module), the templates vector and range, the *)
(* refinements posint, intrange and range, and the alias i                 *)
InitialTypeSystem ==
    [base_types |-> {int32, Pt},
     template_types |-> (Str("vector") :> Tup(<<Str("value_type")>>))
                     @@ (Str("range") :> Tup(<<vtype, Str("low"), Str("high")>>)),
     refined_types |-> (Str("posint") :> int32) @@ (intrange_sig :> int32)
                    @@ (range_sig :> vtype),
     humannames |-> EmptyDict,
     extra_types |-> "xdress_extra_types",
     dtypes |-> "dtypes",
     stlcontainers |-> "stlcontainers",
     argument_kinds |-> EmptyDict,
     variable_namespace |-> EmptyDict,
     type_aliases |-> (Str("i") :> int32),
     cpp_types |-> (int32 :> Txt(<<"int32_t">>))
                @@ (Pt :> Txt(<<"{dtypes}", "xd_pt">>))
                @@ (Str("vector") :> Txt(<<"MyVector">>)),
     numpy_types |-> EmptyDict,
     from_pytypes |-> EmptyDict,
     cython_ctypes |-> EmptyDict,
     cython_cytypes |-> EmptyDict,
     cython_pytypes |-> EmptyDict,
     cython_cimports |-> EmptyDict,
     cython_cyimports |-> EmptyDict,
     cython_pyimports |-> EmptyDict,
     cython_functionnames |-> EmptyDict,
     cython_classnames |-> EmptyDict,
     cython_c2py_conv |-> EmptyDict,
     cython_py2c_conv |-> EmptyDict,
     cache |-> EmptyDict]

(* number of calls made on the type system in one behaviour *)
MaxOps == 3

(* descriptors passed to canon *)
CanonInputs ==
    {Str("i"), Str("intrange"),
     Tup(<<Str("vector")>>),
     Tup(<<Str("vector"), Flt(15)>>),
     Tup(<<int32, Str("*")>>),
     Tup(<<Str("range"), int32, IntV(1), IntV(2)>>)}

(* descriptors passed to strip_predicates *)
StripInputs ==
    {Tup(<<int32, Str("*")>>), Str("intrange"),
     Tup(<<Tup(<<int32, Str("posint")>>), IntV(3)>>)}

(* descriptors passed to cpp_type *)
CppInputs == {Pt, Tup(<<Str("vector"), Str("i")>>)}

NoClassKw ==
    [name |-> None, template_args |-> None, cython_c_type |-> None,
     cython_cimport |-> None, cython_cy_type |-> None, cython_py_type |-> None,
     cython_template_class_name |-> None, cython_template_function_name |-> None,
     cython_cyimport |-> None, cython_pyimport |-> None, cython_c2py |-> None,
     cython_py2c |-> None, cpp_type |-> None, human_name |-> None,
     from_pytype |-> None]

(* keyword arguments passed to register_class *)
ClassInputs ==
    {[NoClassKw EXCEPT !.name = Pt, !.cpp_type = Txt(<<"Point">>)],
     [NoClassKw EXCEPT !.name = Str("i")],
     [NoClassKw EXCEPT !.name = Str("Mat"), !.template_args = Tup(<<Str("T")>>),
                       !.cpp_type = Txt(<<"Matrix">>),
                       !.cython_cimport = Str("mat")]}

NoRefinementKw ==
    [name |-> None, refinementof |-> None, cython_cimport |-> None,
     cython_cyimport |-> None, cython_pyimport |-> None, cython_c2py |-> None,
     cython_py2c |-> None]

(* keyword arguments passed to register_refinement *)
RefinementInputs ==
    {[NoRefinementKw EXCEPT !.name = Str("i"), !.refinementof = Pt]}

(* keyword arguments passed to register_specialization *)
SpecializationInputs ==
    {[t |-> Tup(<<Str("vector"), Str("i")>>), cython_c_type |-> Txt(<<"vector_int">>),
      cython_cy_type |-> None, cython_py_type |-> None, cython_cimport |-> None,
      cython_cyimport |-> None, cython_pyimport |-> None]}

(* arguments passed to register_argument_kinds *)
ArgumentKindInputs ==
    {[t |-> Tup(<<Str("vector"), Str("i")>>), argkinds |-> Tup(<<ArgKind("TYPE")>>)],
     [t |-> Tup(<<Str("vector"), Str("i")>>), argkinds |-> Tup(<<ArgKind("VAR")>>)]}

(* keyword arguments passed to update *)
UpdateInputs ==
    {"type_aliases" :> [kind |-> "Mapping", val |-> (Str("i") :> Pt)],
     "dtypes" :> [kind |-> "other", val |-> "mydtypes"]}

(* module names passed to swap_dtypes / swap_stlcontainers *)
SwapInputs == {[attr |-> "dtypes", new |-> "npdtypes"],
               [attr |-> "stlcontainers", new |-> "mystl"]}

-----------------------------------------------------------------------------
(* The state machine *)

(* the record kept of the last call: the method and its argument, the      *)
(* exception class or "ok", the value returned, whether the memo held the  *)
(* key before the call, whether the call removed memo entries, and for the *)
(* swaps the attribute and the value it had when the block was entered     *)
NoRet == [op |-> "init", arg |-> None, e |-> "ok", v |-> None, hit |-> FALSE,
          dropped |-> FALSE, attr |-> "", pre |-> ""]

(* whether a call that turned cache c0 into c1 removed memo entries *)
Dropped(c0, c1) == \E k \in DOMAIN c0 : k \notin DOMAIN c1

(* the stamps of the memo entries after a call that turned cache c0 into c1 *)
Stamp(c0, c1) ==
    [k \in DOMAIN c1 |->
        IF k \in DOMAIN c0 /\ k \in DOMAIN born /\ c0[k] = c1[k] THEN born[k]
        ELSE ncalls + 1]

(* a call on ts with outcome r *)
Called(op, arg, r, hit) ==
    /\ ncalls < MaxOps
    /\ ts' = r.s
    /\ ret' = [NoRet EXCEPT !.op = op, !.arg = arg, !.e = r.e, !.v = r.v, !.hit = hit,
                            !.dropped = Dropped(ts.cache, r.s.cache)]
    /\ born' = Stamp(ts.cache, r.s.cache)
    /\ ncalls' = ncalls + 1
    /\ UNCHANGED frames

Init ==
    /\ ts = InitialTypeSystem
    /\ frames = <<>>
    /\ ret = NoRet
    /\ born = EmptyDict
    /\ ncalls = 0

Canon(t) ==
    Called("canon", t, self_canon(ts, t), <<"canon", <<t>>>> \in DOMAIN ts.cache)

StripPredicates(t) ==
    Called("strip_predicates", t, self_strip_predicates(ts, t),
           <<"strip_predicates", <<t>>>> \in DOMAIN ts.cache)

CppType(t) ==
    Called("cpp_type", t, self_cpp_type(ts, t), <<"cpp_type", <<t>>>> \in DOMAIN ts.cache)

RegisterClass(kw) ==
    Called("register_class", kw.name, register_class(ts, kw), FALSE)

DeregisterClass(name) ==
    Called("deregister_class", name, deregister_class(ts, name), FALSE)

RegisterRefinement(kw) ==
    Called("register_refinement", kw.name, register_refinement(ts, kw), FALSE)

DeregisterRefinement(name) ==
    Called("deregister_refinement", name, deregister_refinement(ts, name), FALSE)

RegisterSpecialization(kw) ==
    Called("register_specialization", kw.t, register_specialization(ts, kw), FALSE)

DeregisterSpecialization(t) ==
    Called("deregister_specialization", t, deregister_specialization(ts, t), FALSE)

RegisterArgumentKinds(a) ==
    Called("register_argument_kinds", a.t,
           register_argument_kinds(ts, a.t, a.argkinds), FALSE)

DeregisterArgumentKinds(t) ==
    Called("deregister_argument_kinds", t, deregister_argument_kinds(ts, t), FALSE)

RegisterVariableNamespace(name) ==
    Called("register_variable_namespace", name,
           register_variable_namespace(ts, name, <<"ns">>, None), FALSE)

UpdateCall(toup) ==
    Called("update", None, update(ts, toup), FALSE)

ClearMemo ==
    Called("clearmemo", None, Ok(None, clearmemo(ts)), FALSE)

(* with ts.swap_dtypes(s): / with ts.swap_stlcontainers(s): is entered *)
SwapEnter(a) ==
    /\ ncalls < MaxOps
    /\ ts' = swap_enter(ts, a.attr, a.new)
    /\ frames' = Append(frames, [attr |-> a.attr, old |-> ts[a.attr],
                                 entered |-> ncalls + 1])
    /\ ret' = [NoRet EXCEPT !.op = "swap_enter", !.attr = a.attr, !.pre = ts[a.attr],
                            !.dropped = Dropped(ts.cache, ts'.cache)]
    /\ born' = Stamp(ts.cache, ts'.cache)
    /\ ncalls' = ncalls + 1

(* the innermost with block ends normally *)
SwapExit ==
    /\ ncalls < MaxOps
    /\ frames # <<>>
    /\ LET f == frames[Len(frames)]
       IN  /\ ts' = swap_exit(ts, f.attr, f.old)
           /\ ret' = [NoRet EXCEPT !.op = "swap_exit", !.attr = f.attr, !.pre = f.old,
                                   !.dropped = Dropped(ts.cache, ts'.cache)]
    /\ frames' = SubSeq(frames, 1, Len(frames) - 1)
    /\ born' = Stamp(ts.cache, ts'.cache)
    /\ ncalls' = ncalls + 1

(* the innermost with block raises *)
SwapRaise ==
    /\ ncalls < MaxOps
    /\ frames # <<>>
    /\ LET f == frames[Len(frames)]
       IN  /\ ts' = swap_throw(ts, f.attr, f.old)
           /\ ret' = [NoRet EXCEPT !.op = "swap_raise", !.attr = f.attr, !.pre = f.old,
                                   !.e = "Exception",
                                   !.dropped = Dropped(ts.cache, ts'.cache)]
    /\ frames' = SubSeq(frames, 1, Len(frames) - 1)
    /\ born' = Stamp(ts.cache, ts'.cache)
    /\ ncalls' = ncalls + 1

Next ==
    \/ \E t \in CanonInputs : Canon(t)
    \/ \E t \in StripInputs : StripPredicates(t)
    \/ \E t \in CppInputs : CppType(t)
    \/ \E kw \in ClassInputs : RegisterClass(kw)
    \/ \E name \in {Pt, Str("nope")} : DeregisterClass(name)
    \/ \E kw \in RefinementInputs : RegisterRefinement(kw)
    \/ \E name \in {Str("posint")} : DeregisterRefinement(name)
    \/ \E kw \in SpecializationInputs : RegisterSpecialization(kw)
    \/ \E kw \in SpecializationInputs : DeregisterSpecialization(kw.t)
    \/ \E a \in ArgumentKindInputs : RegisterArgumentKinds(a)
    \/ \E a \in ArgumentKindInputs : DeregisterArgumentKinds(a.t)
    \/ \E name \in {Str("x")} : RegisterVariableNamespace(name)
    \/ \E toup \in UpdateInputs : UpdateCall(toup)
    \/ ClearMemo
    \/ \E a \in SwapInputs : SwapEnter(a)
    \/ SwapExit
    \/ SwapRaise

Spec == Init /\ [][Next]_vars

-----------------------------------------------------------------------------
(* The state machine of the scoped class renaming: a type system whose     *)
(* Cython tables hold qualified spellings, with blocks                     *)
(* with ts.local_classes(classnames, typesets): ...                        *)

Mat == Str("Mat")

(* TypeSystem.__init__ with qualified Cython spellings for Pt and an       *)
(* unqualified one for Mat                                                 *)
LocalTypeSystem ==
    [InitialTypeSystem EXCEPT
        !.base_types = @ \cup {Mat},
        !.cython_ctypes = (Pt :> Txt(<<"cpp_pkg", ".", "Pt">>)),
        !.cython_cytypes = (Pt :> Txt(<<"xd", ".", "pkg", ".", "Pt">>))
                        @@ (Mat :> Txt(<<"Mat">>)),
        !.cython_pytypes = (Pt :> Txt(<<"pkg", ".", "Pt">>))]

(* arguments passed to local_classes: one name, a name listed twice, a     *)
(* name with no entry, and the default and two other typesets              *)
LocalInputs ==
    [classnames : {<<Pt>>, <<Pt, Pt>>, <<Pt, Mat>>, <<Str("nope"), Mat>>},
     typesets : {{"cy", "py"}, {"c"}, {"c", "cy", "py"}}]

(* keyword arguments of a register_specialization that writes the Cython   *)
(* tables                                                                  *)
LocalSpecializationInputs ==
    {[t |-> Mat, cython_c_type |-> Txt(<<"cpp_pkg", ".", "Mat">>),
      cython_cy_type |-> None, cython_py_type |-> None, cython_cimport |-> None,
      cython_cyimport |-> None, cython_pyimport |-> None]}

(* the three tables local_classes rewrites *)
CythonTables(s) == <<s.cython_ctypes, s.cython_cytypes, s.cython_pytypes>>

LocalInit ==
    /\ ts = LocalTypeSystem
    /\ frames = <<>>
    /\ ret = NoRet
    /\ born = EmptyDict
    /\ ncalls = 0

(* with ts.local_classes(classnames, typesets): is entered.  The frame     *)
(* keeps the generator's locals, and the tables as they were before the    *)
(* call and as the block finds them.                                       *)
LocalEnter(a) ==
    /\ ncalls < MaxOps
    /\ LET r == local_classes_enter(ts, a.classnames, a.typesets)
       IN  /\ ts' = r.s
           /\ frames' = IF r.e = "ok"
                        THEN Append(frames,
                                 [attr |-> "local_classes",
                                  old |-> [saved |-> r.v, classnames |-> a.classnames,
                                           typesets |-> a.typesets,
                                           before |-> CythonTables(ts),
                                           inside |-> CythonTables(r.s)],
                                  entered |-> ncalls + 1])
                        ELSE frames
           /\ ret' = [NoRet EXCEPT !.op = "local_enter", !.arg = a, !.e = r.e,
                                   !.attr = "local_classes",
                                   !.dropped = Dropped(ts.cache, r.s.cache)]
           /\ born' = Stamp(ts.cache, r.s.cache)
    /\ ncalls' = ncalls + 1

(* the innermost with block ends normally; ret.v tells whether the tables  *)
(* were, when the block ended, as the block found them                     *)
LocalExit ==
    /\ ncalls < MaxOps
    /\ frames # <<>>
    /\ LET f == frames[Len(frames)]
           r == local_classes_exit(ts, f.old.saved, f.old.classnames, f.old.typesets)
       IN  /\ ts' = r.s
           /\ ret' = [NoRet EXCEPT !.op = "local_exit", !.arg = f.old, !.e = r.e,
                                   !.v = Bool(CythonTables(ts) = f.old.inside),
                                   !.attr = "local_classes",
                                   !.dropped = Dropped(ts.cache, r.s.cache)]
           /\ born' = Stamp(ts.cache, r.s.cache)
    /\ frames' = SubSeq(frames, 1, Len(frames) - 1)
    /\ ncalls' = ncalls + 1

(* the innermost with block raises *)
LocalRaise ==
    /\ ncalls < MaxOps
    /\ frames # <<>>
    /\ LET f == frames[Len(frames)]
       IN  /\ ts' = local_classes_throw(ts, f.old.saved, f.old.classnames,
                                        f.old.typesets)
           /\ ret' = [NoRet EXCEPT !.op = "local_raise", !.arg = f.old,
                                   !.e = "Exception", !.attr = "local_classes"]
    /\ frames' = SubSeq(frames, 1, Len(frames) - 1)
    /\ UNCHANGED born
    /\ ncalls' = ncalls + 1

LocalNext ==
    \/ \E a \in LocalInputs : LocalEnter(a)
    \/ LocalExit
    \/ LocalRaise
    \/ \E kw \in LocalSpecializationInputs : RegisterSpecialization(kw)
    \/ \E t \in {Pt, Mat} : Canon(t)

LocalSpec == LocalInit /\ [][LocalNext]_vars

-----------------------------------------------------------------------------
(* The state machine of dependent-refinement resolution: canon on          *)
(* instantiations of the dependent refinements of a type system that also  *)
(* has a templated refinement whose parent is a template over its          *)
(* parameter and a refinement whose dependency is typed by an alias        *)

(* ('sized', 'T', ('n', 'int32')), a refinement of ('vector', 'T') *)
sized_sig == Tup(<<Str("sized"), Str("T"), Tup(<<Str("n"), int32>>)>>)

(* ('bounded', ('lo', 'i')), a refinement of 'posint' *)
bounded_sig == Tup(<<Str("bounded"), Tup(<<Str("lo"), Str("i")>>)>>)

(* ('range', 'int32', 1, 2) *)
range_int32 == Tup(<<Str("range"), int32, IntV(1), IntV(2)>>)

DepTypeSystem ==
    [InitialTypeSystem EXCEPT
        !.template_types = @ @@ (Str("sized") :> Tup(<<Str("T"), Str("n")>>)),
        !.refined_types = @ @@ (sized_sig :> Tup(<<Str("vector"), Str("T")>>))
                            @@ (bounded_sig :> Str("posint"))]

(* descriptors passed to canon: instantiations with the declared number of *)
(* arguments, with too few and too many, and a range of ranges             *)
DepCanonInputs ==
    {range_int32,
     Tup(<<Str("range"), Pt, IntV(1), IntV(2)>>),
     Tup(<<Str("range"), range_int32, IntV(1), IntV(2)>>),
     Tup(<<Str("range"), int32, IntV(1)>>),
     Tup(<<Str("sized"), int32, IntV(3)>>),
     Tup(<<Str("sized"), Pt, IntV(3)>>),
     Tup(<<Str("intrange"), IntV(1), IntV(2)>>),
     Tup(<<Str("intrange"), IntV(1)>>),
     Tup(<<Str("bounded"), IntV(5)>>),
     Tup(<<Str("bounded"), IntV(5), IntV(6)>>)}

(* keyword arguments passed to update: an alias named like the parameter   *)
(* of range                                                                *)
DepUpdateInputs ==
    {"type_aliases" :> [kind |-> "Mapping", val |-> (vtype :> Pt)]}

DepInit ==
    /\ ts = DepTypeSystem
    /\ frames = <<>>
    /\ ret = NoRet
    /\ born = EmptyDict
    /\ ncalls = 0

DepNext ==
    \/ \E t \in DepCanonInputs : Canon(t)
    \/ \E toup \in DepUpdateInputs : UpdateCall(toup)
    \/ ClearMemo

DepSpec == DepInit /\ [][DepNext]_vars

-----------------------------------------------------------------------------
(* The state machine of converter lookup: a type system whose converter    *)
(* tables hold templates, callables, None and NotImplemented, and a base   *)
(* type Mat with no entry in either                                        *)

ConvTypeSystem ==
    [InitialTypeSystem EXCEPT
        !.base_types = @ \cup {Mat},
        !.cython_c2py_conv =
            (int32 :> Tup(<<Txt(<<"int(", "{var}", ")">>)>>))
            @@ (Pt :> Callable("wrap"))
            @@ (Str("vector") :> NotImplemented),
        !.cython_py2c_conv =
            (int32 :> Tup(<<Txt(<<"<int> ", "{var}", "{last}">>), Bool(FALSE)>>))
            @@ (Pt :> Callable("unwrap"))
            @@ (Str("vector") :> None)]

(* types passed to the converter lookups *)
ConvInputs ==
    {Tup(<<int32, Str("*")>>), Pt, Tup(<<Pt, Str("*")>>), Mat,
     Tup(<<Str("vector"), Str("i")>>)}

(* self.cython_c2py_getitem(t) *)
CythonC2pyGetitem(t) ==
    Called("cython_c2py_getitem", t, self_cython_c2py_getitem(ts, t),
           <<"cython_c2py_getitem", <<t>>>> \in DOMAIN ts.cache)

(* self.cython_c2py('x', t) *)
CythonC2py(t) ==
    Called("cython_c2py", t, self_cython_c2py(ts, "x", t),
           <<"cython_c2py", <<"x", t>>>> \in DOMAIN ts.cache)

(* self.cython_py2c('x', t) *)
CythonPy2c(t) ==
    Called("cython_py2c", t, self_cython_py2c(ts, "x", t),
           <<"cython_py2c", <<"x", t>>>> \in DOMAIN ts.cache)

ConvInit ==
    /\ ts = ConvTypeSystem
    /\ frames = <<>>
    /\ ret = NoRet
    /\ born = EmptyDict
    /\ ncalls = 0

ConvNext ==
    \/ \E t \in ConvInputs : CythonC2pyGetitem(t)
    \/ \E t \in ConvInputs : CythonC2py(t)
    \/ \E t \in ConvInputs : CythonPy2c(t)
    \/ \E t \in {range_int32, Str("intrange")} : Canon(t)
    \/ \E t \in {Tup(<<Pt, Str("*")>>)} : StripPredicates(t)
    \/ \E t \in {Pt} : CppType(t)
    \/ \E a \in {[attr |-> "dtypes", new |-> "npdtypes"]} : SwapEnter(a)
    \/ SwapExit
    \/ ClearMemo

ConvSpec == ConvInit /\ [][ConvNext]_vars

-----------------------------------------------------------------------------
(* The state machine of the structural queries: a type system with an      *)
(* alias of a refinement and an alias of a template instance               *)

QueryTypeSystem ==
    [InitialTypeSystem EXCEPT
        !.type_aliases = @ @@ (Str("pos") :> Str("posint"))
                           @@ (Str("vi") :> Tup(<<Str("vector"), int32>>))]

(* descriptors passed to the structural queries: a refinement, its         *)
(* canonical form and its alias; a template instance and its alias; the    *)
(* head of a dependent refinement                                          *)
QueryInputs ==
    {Str("posint"), Tup(<<int32, Str("posint")>>), Str("pos"),
     Tup(<<Str("vector"), Str("i")>>), Str("vi"), Str("intrange")}

IsTemplate(t) ==
    Called("istemplate", t, self_istemplate(ts, t),
           <<"istemplate", <<t>>>> \in DOMAIN ts.cache)

IsDependent(t) ==
    Called("isdependent", t, self_isdependent(ts, t),
           <<"isdependent", <<t>>>> \in DOMAIN ts.cache)

IsRefinement(t) ==
    Called("isrefinement", t, self_isrefinement(ts, t),
           <<"isrefinement", <<t>>>> \in DOMAIN ts.cache)

Basename(t) ==
    Called("basename", t, call(ts, "basename", <<t>>),
           <<"basename", <<t>>>> \in DOMAIN ts.cache)

QueryInit ==
    /\ ts = QueryTypeSystem
    /\ frames = <<>>
    /\ ret = NoRet
    /\ born = EmptyDict
    /\ ncalls = 0

QueryNext ==
    \/ \E t \in QueryInputs : IsTemplate(t)
    \/ \E t \in QueryInputs : IsDependent(t)
    \/ \E t \in QueryInputs : IsRefinement(t)
    \/ \E t \in QueryInputs : Basename(t)
    \/ \E t \in QueryInputs : StripPredicates(t)
    \/ \E t \in QueryInputs : Canon(t)
    \/ ClearMemo

QuerySpec == QueryInit /\ [][QueryNext]_vars

-----------------------------------------------------------------------------
(* The state machine of the simple refinements: refinements are            *)
(* registered, registered again with another parent and removed between    *)
(* calls of canon and strip_predicates                                     *)

(* keyword arguments passed to register_refinement: posint again with the  *)
(* parent Pt, a refinement of a refinement, and a refinement named like    *)
(* the alias i                                                             *)
RefRefinementInputs ==
    {[NoRefinementKw EXCEPT !.name = Str("posint"), !.refinementof = Pt],
     [NoRefinementKw EXCEPT !.name = Str("meters"), !.refinementof = Str("posint")],
     [NoRefinementKw EXCEPT !.name = Str("i"), !.refinementof = Pt]}

(* descriptors passed to canon and strip_predicates *)
RefInputs == {Str("posint"), Str("meters"), Str("i"), Tup(<<int32, Str("posint")>>)}

RefInit ==
    /\ ts = InitialTypeSystem
    /\ frames = <<>>
    /\ ret = NoRet
    /\ born = EmptyDict
    /\ ncalls = 0

RefNext ==
    \/ \E t \in RefInputs : Canon(t)
    \/ \E t \in RefInputs : StripPredicates(t)
    \/ \E kw \in RefRefinementInputs : RegisterRefinement(kw)
    \/ \E name \in {Str("meters")} : DeregisterRefinement(name)
    \/ ClearMemo

RefSpec == RefInit /\ [][RefNext]_vars

-----------------------------------------------------------------------------
(* The state machine of resolution depth: templated refinements are        *)
(* instantiated with arguments named like their parameters, and aliases    *)
(* that do and do not refer to themselves are added                        *)

(* descriptors passed to canon: ('range', 'vtype', 1, 2) and               *)
(* ('sized', 'T', 3) name the parameter itself as the argument             *)
TermCanonInputs ==
    {Tup(<<Str("range"), vtype, IntV(1), IntV(2)>>),
     Tup(<<Str("sized"), Str("T"), IntV(3)>>),
     range_int32,
     Tup(<<Str("sized"), int32, IntV(3)>>),
     Str("a"), Str("posint")}

(* keyword arguments passed to update: an alias of itself and an alias of  *)
(* a base type                                                             *)
TermUpdateInputs ==
    {"type_aliases" :> [kind |-> "Mapping", val |-> (Str("a") :> Str("a"))],
     "type_aliases" :> [kind |-> "Mapping", val |-> (Str("a") :> int32)]}

TermInit ==
    /\ ts = DepTypeSystem
    /\ frames = <<>>
    /\ ret = NoRet
    /\ born = EmptyDict
    /\ ncalls = 0

TermNext ==
    \/ \E t \in TermCanonInputs : Canon(t)
    \/ \E toup \in TermUpdateInputs : UpdateCall(toup)
    \/ ClearMemo

TermSpec == TermInit /\ [][TermNext]_vars

-----------------------------------------------------------------------------
(* The state machine of repeated canonicalization: canon and               *)
(* strip_predicates are the only calls made on the type system             *)

MemoNext ==
    \/ \E t \in DepCanonInputs : Canon(t)
    \/ \E t \in {Str("posint"), range_int32} : StripPredicates(t)

MemoSpec == DepInit /\ [][MemoNext]_vars

-----------------------------------------------------------------------------
(* The state machine of class registration: classes are registered and     *)
(* removed; the record of a register_class call keeps the type system as   *)
(* it was before the call in the field pre                                 *)

Vec3 == Str("Vec3")

(* keyword arguments passed to register_class: a templated class with      *)
(* name-mangling formats, a plain class with spellings and converters, and *)
(* the base type Pt again                                                  *)
ClassSpecInputs ==
    {[NoClassKw EXCEPT !.name = Mat, !.template_args = Tup(<<Str("T")>>),
                       !.cpp_type = Txt(<<"Matrix">>),
                       !.cython_cimport = Str("mat"),
                       !.cython_template_class_name = Txt(<<"Mat", "{value_type}">>),
                       !.cython_template_function_name = Txt(<<"mat_", "{value_type}">>)],
     [NoClassKw EXCEPT !.name = Vec3, !.cpp_type = Txt(<<"Vec3">>),
                       !.cython_c_type = Txt(<<"cpp_vec3">>),
                       !.cython_cy_type = Txt(<<"_Vec3">>),
                       !.cython_py_type = Txt(<<"Vec3">>),
                       !.cython_pyimport = Str("vec3"),
                       !.cython_c2py = Str("Vec3({var})"),
                       !.cython_py2c = Str("<cpp_vec3> {var}"),
                       !.human_name = Txt(<<"vector of three">>)],
     [NoClassKw EXCEPT !.name = Pt, !.cpp_type = Txt(<<"Point">>)]}

ClassRegister(kw) ==
    /\ ncalls < MaxOps
    /\ ts' = register_class(ts, kw).s
    /\ ret' = [NoRet EXCEPT !.op = "register_class", !.arg = kw.name,
                            !.e = register_class(ts, kw).e,
                            !.v = register_class(ts, kw).v, !.pre = ts]
    /\ born' = Stamp(ts.cache, ts'.cache)
    /\ ncalls' = ncalls + 1
    /\ UNCHANGED frames

ClassInit ==
    /\ ts = InitialTypeSystem
    /\ frames = <<>>
    /\ ret = NoRet
    /\ born = EmptyDict
    /\ ncalls = 0

ClassNext ==
    \/ \E kw \in ClassSpecInputs : ClassRegister(kw)
    \/ \E name \in {Mat, Vec3, Pt} : DeregisterClass(name)
    \/ \E t \in {Vec3, Tup(<<Mat, int32>>), Pt} : Canon(t)
    \/ \E t \in {Vec3, Tup(<<Mat, int32>>)} : CppType(t)
    \/ ClearMemo

ClassSpec == ClassInit /\ [][ClassNext]_vars

-----------------------------------------------------------------------------
(* The state machine of two threads that call canon on one type system.    *)
(* The interpreter may switch threads between any two statements of        *)
(* _resolve_dependent_type; frames[i] is the position of thread i: idle,   *)
(* or in the templated branch before the update of type_aliases ("bind"),  *)
(* before the computation of resotype ("resolve"), or before the cleanup   *)
(* loop ("unbind").                                                        *)

Threads == {1, 2}

(* instantiations of the templated refinement range; run one after the    *)
(* other they share no memo entry that outlives a call                     *)
ThreadInputs == {range_int32, Tup(<<Str("range"), Pt, IntV(1), IntV(2)>>)}

IdleFrame == [pc |-> "idle", t |-> None, resotype |-> None]

(* depkey of the call in frame f *)
FrameDepkey(f) == CHOOSE k \in depkeys(ts, at(f.t, 0)) : TRUE

(* the call of thread i ends: with the value v when e is "ok", with the    *)
(* exception e otherwise                                                   *)
ThreadEnds(i, t, r) ==
    /\ ts' = r.s
    /\ ret' = [NoRet EXCEPT !.op = "canon", !.arg = t, !.e = r.e, !.v = r.v]
    /\ frames' = [frames EXCEPT ![i] = IdleFrame]

(* thread i calls canon(t): a memoized result is returned at once;         *)
(* otherwise the thread runs up to the update of type_aliases              *)
ThreadCall(i, t) ==
    /\ ncalls < MaxOps
    /\ frames[i].pc = "idle"
    /\ IF \/ <<"canon", <<t>>>> \in DOMAIN ts.cache
          \/ <<"_resolve_dependent_type", <<at(t, 0), t>>>> \in DOMAIN ts.cache
       THEN ThreadEnds(i, t, self_canon(ts, t))
       ELSE LET depkey == CHOOSE k \in depkeys(ts, at(t, 0)) : TRUE
                s1 == self_istemplate(self_isdependent(ts, at(t, 0)).s, depkey).s
                chk == resolve_check(s1, t, depkey)
            IN  IF chk.e # "ok" THEN ThreadEnds(i, t, chk)
                ELSE /\ ts' = s1
                     /\ frames' = [frames EXCEPT ![i] = [IdleFrame EXCEPT !.pc = "bind",
                                                                          !.t = t]]
                     /\ UNCHANGED ret
    /\ ncalls' = ncalls + 1
    /\ UNCHANGED born

ThreadBind(i) ==
    /\ frames[i].pc = "bind"
    /\ ts' = resolve_bind(ts, frames[i].t, FrameDepkey(frames[i]))
    /\ frames' = [frames EXCEPT ![i].pc = "resolve"]
    /\ UNCHANGED <<ret, born, ncalls>>

ThreadResolve(i) ==
    /\ frames[i].pc = "resolve"
    /\ LET f == frames[i]
           r == resolve_resotype(ts, at(f.t, 0), f.t, FrameDepkey(f),
                                 ts.refined_types[FrameDepkey(f)])
       IN  IF r.e # "ok" THEN ThreadEnds(i, f.t, r)
           ELSE /\ ts' = r.s
                /\ frames' = [frames EXCEPT ![i].pc = "unbind", ![i].resotype = r.v]
                /\ UNCHANGED ret
    /\ UNCHANGED <<born, ncalls>>

ThreadUnbind(i) ==
    /\ frames[i].pc = "unbind"
    /\ ThreadEnds(i, frames[i].t,
                  resolve_return(ts, at(frames[i].t, 0), frames[i].t,
                                 FrameDepkey(frames[i]), frames[i].resotype))
    /\ UNCHANGED <<born, ncalls>>

ThreadInit ==
    /\ ts = InitialTypeSystem
    /\ frames = [i \in Threads |-> IdleFrame]
    /\ ret = NoRet
    /\ born = EmptyDict
    /\ ncalls = 0

ThreadNext ==
    \/ \E i \in Threads : \E t \in ThreadInputs : ThreadCall(i, t)
    \/ \E i \in Threads : ThreadBind(i)
    \/ \E i \in Threads : ThreadResolve(i)
    \/ \E i \in Threads : ThreadUnbind(i)

ThreadSpec == ThreadInit /\ [][ThreadNext]_vars

-----------------------------------------------------------------------------
(* Properties *)

(* the outcome of a call without the state it leaves *)
Outcome(r) == <<r.e, r.v>>

(* the memoized queries the state machine makes *)
Queries == {"canon", "strip_predicates", "cpp_type"}

(* the last call was the query op and it returned a value *)
Returned(op) == ret.op = op /\ ret.e = "ok"

(* a sequence headed by a template name that is no dependent-refinement    *)
(* head                                                                    *)
TemplateHeaded(t) ==
    /\ isSequence(t)
    /\ len(t) > 0
    /\ at(t, 0) \in DOMAIN ts.template_types
    /\ at(t, 0) \notin deptypes(ts)

(* the declared arity of the template heading t *)
Arity(t) == len(ts.template_types[at(t, 0)])

(* whether v is built from strings, integers and tuples only *)
RECURSIVE OnlyStrIntTuple(_)
OnlyStrIntTuple(v) ==
    \/ isstr(v)
    \/ isint(v)
    \/ isSequence(v) /\ \A i \in 1..Len(v[2]) : OnlyStrIntTuple(v[2][i])

(* whether k is a predicate other than 0 *)
NonZero(k) == ~(isNumber(k) /\ k[2] = 0)

(* C1: cache coherency.  Whatever registration calls and queries came      *)
(* before, a memoized query that returns a value returns the value a fresh *)
(* computation on the current tables, with an empty memo, returns.         *)
C1_CacheCoherent ==
    (ret.op \in Queries /\ ret.e = "ok")
        => Outcome(call(clearmemo(ts), ret.op, <<ret.arg>>)) = <<"ok", ret.v>>

(* C2: canon is idempotent.  When canon(t) returned c, canon(c) returns c. *)
C2_CanonIdempotent ==
    Returned("canon") => Outcome(self_canon(ts, ret.v)) = <<"ok", ret.v>>

(* C3: template arity.  A value canon returns for a sequence headed by a   *)
(* template of declared arity n is a tuple of length n + 2 with that head. *)
C3_TemplateLength ==
    (Returned("canon") /\ TemplateHeaded(ret.arg))
        => /\ isSequence(ret.v)
           /\ len(ret.v) = Arity(ret.arg) + 2
           /\ at(ret.v, 0) = at(ret.arg, 0)

(* C4: wrong arity is rejected.  canon of a sequence headed by a template  *)
(* of declared arity n whose length is neither n + 1 nor n + 2 raises.     *)
C4_WrongArityRaises ==
    (ret.op = "canon" /\ TemplateHeaded(ret.arg)
        /\ len(ret.arg) \notin {Arity(ret.arg) + 1, Arity(ret.arg) + 2})
        => ret.e # "ok"

(* C5: hashable output.  Every value canon returns is built, recursively,  *)
(* from strings, integers and tuples only.                                 *)
C5_CanonStrIntTuple ==
    Returned("canon") => OnlyStrIntTuple(ret.v)

(* canon(a) and canon(d) for the alias a of d, computed with no memo entry *)
(* for a, have the same outcome                                            *)
AliasAgrees(a) ==
    LET s == [ts EXCEPT !.cache = Pop(@, <<"canon", <<a>>>>)]
    IN  Outcome(self_canon(s, a)) = Outcome(self_canon(s, ts.type_aliases[a]))

StrippedPair ==
    /\ Returned("strip_predicates")
    /\ isSequence(ret.arg)
    /\ len(ret.arg) = 2
    /\ NonZero(at(ret.arg, 1))
    /\ Outcome(self_canon(ts, ret.arg)) = <<"ok", ret.arg>>

C8_StripIdempotent ==
    Returned("strip_predicates")
        => Outcome(self_strip_predicates(ts, ret.v)) = <<"ok", ret.v>>

(* C9: when the block of a swap raises, the overridden setting has the     *)
(* value it had before the block again and the memo is empty.              *)
C9_RestoredOnRaise ==
    ret.op = "swap_raise" => (ts[ret.attr] = ret.pre /\ ts.cache = EmptyDict)

(* C10: when the block of a swap ends normally, the overridden setting has *)
(* the value it had before the block again and the memo is empty; and      *)
(* while a block is active the memo holds no entry stored before the       *)
(* block was entered, so no query in it is answered with such an entry.    *)
C10_SwapScoped ==
    /\ ret.op = "swap_exit" => (ts[ret.attr] = ret.pre /\ ts.cache = EmptyDict)
    /\ \A i \in 1..Len(frames) :
          \A k \in DOMAIN ts.cache : k \in DOMAIN born /\ born[k] > frames[i].entered

(* C10: a block that changed the setting and memoized a query ended        *)
(* normally                                                                *)
C10_Witness ==
    /\ ret.op = "swap_exit"
    /\ ret.dropped
    /\ ret.pre = InitialTypeSystem[ret.attr]
    /\ ts[ret.attr] = ret.pre

(* C11: when a local_classes block whose body left the Cython tables as it *)
(* found them ends normally, cython_ctypes, cython_cytypes and             *)
(* cython_pytypes equal their values before the block was entered.         *)
C11_LocalClassesRestored ==
    (ret.op = "local_exit" /\ ret.e = "ok" /\ ret.v = Bool(TRUE))
        => CythonTables(ts) = ret.arg.before

(* the register_ and deregister_ operations of the state machine *)
RegistrationOps ==
    {"register_class", "register_refinement", "register_specialization",
     "register_argument_kinds", "register_variable_namespace", "deregister_class",
     "deregister_refinement", "deregister_specialization", "deregister_argument_kinds"}

(* C13: every register_ and deregister_ operation that returns leaves the  *)
(* memo empty.                                                             *)
C13_RegistrationClearsMemo ==
    (ret.op \in RegistrationOps /\ ret.e = "ok") => ts.cache = EmptyDict

(* a sequence headed by the name of a dependent refinement of s *)
DependentHeaded(s, t) ==
    /\ isSequence(t)
    /\ len(t) > 0
    /\ at(t, 0) \in deptypes(s)

(* the signature of the dependent refinement heading t *)
Signature(s, t) == CHOOSE k \in depkeys(s, at(t, 0)) : TRUE

(* the dependent refinement heading t is templated *)
TemplatedDependent(s, t) ==
    DependentHeaded(s, t) /\ at(t, 0) \in DOMAIN s.template_types

(* C12: when canon has resolved an instantiation of a templated dependent  *)
(* refinement, no parameter name of its signature is left in type_aliases  *)
(* and the result is the one a computation with an empty memo gives, so    *)
(* it reflects the arguments of this instantiation only.                   *)
C12_NoBindingLeak ==
    (Returned("canon") /\ ~ret.hit /\ TemplatedDependent(ts, ret.arg))
        => /\ \A i \in 1..(len(Signature(ts, ret.arg)) - 1) :
                 at(Signature(ts, ret.arg), i) \notin DOMAIN ts.type_aliases
           /\ Outcome(self_canon(clearmemo(ts), ret.arg)) = <<"ok", ret.v>>

(* C14: canon returns no value for an instantiation of a dependent         *)
(* refinement whose number of arguments differs from the number its        *)
(* signature declares.                                                     *)
C14_DependentArity ==
    (Returned("canon") /\ DependentHeaded(ts, ret.arg))
        => len(ret.arg) = len(Signature(ts, ret.arg))

(* C14: canon was called on an instantiation with a wrong number of        *)
(* arguments and raised                                                    *)
C14_Witness ==
    /\ ret.op = "canon"
    /\ ret.e = "AssertionError"
    /\ DependentHeaded(ts, ret.arg)
    /\ len(ret.arg) # len(Signature(ts, ret.arg))

(* (canon(P), (r, (n1, canon(T1), v1), ..., (nk, canon(Tk), vk))) for the *)
(* instantiation t = (r, v1, ..., vk) of the signature sig with parent P   *)
PlainDependentForm(s, t, sig) ==
    Tup(<<self_canon(s, s.refined_types[sig]).v,
          Tup(<<at(t, 0)>> \o
              [i \in 1..(len(sig) - 1) |->
                  Tup(<<at(at(sig, i), 0),
                        self_canon(s, at(at(sig, i), 1)).v,
                        at(t, i)>>)])>>)

(* C15: for a non-templated dependent refinement with signature            *)
(* (r, (n1, T1), ..., (nk, Tk)) and parent P, canon((r, v1, ..., vk)) is   *)
(* (canon(P), (r, (n1, canon(T1), v1), ..., (nk, canon(Tk), vk))).         *)
C15_PlainDependentCanon ==
    (Returned("canon") /\ DependentHeaded(ts, ret.arg)
        /\ ~TemplatedDependent(ts, ret.arg))
        => ret.v = PlainDependentForm(ts, ret.arg, Signature(ts, ret.arg))

(* C15: canon computed the form of an instantiation of a non-templated     *)
(* dependent refinement whose dependency type is an alias and whose parent *)
(* is a refinement                                                         *)
C15_Witness ==
    /\ Returned("canon")
    /\ ~ret.hit
    /\ ret.arg = Tup(<<Str("bounded"), IntV(5)>>)
    /\ ret.v = Tup(<<Tup(<<int32, Str("posint")>>),
                     Tup(<<Str("bounded"), Tup(<<Str("lo"), int32, IntV(5)>>)>>)>>)

(* the signature of the templated dependent refinement heading t declares  *)
(* a parameter name that is a key of type_aliases                          *)
ParameterAliased(s, t) ==
    /\ TemplatedDependent(s, t)
    /\ \E i \in 1..(len(Signature(s, t)) - 1) :
          /\ isstr(at(Signature(s, t), i))
          /\ at(Signature(s, t), i) \in DOMAIN s.type_aliases

(* C16: canon of a templated dependent refinement instantiated with an     *)
(* instance of the same refinement as its type argument, called while no   *)
(* parameter name of the refinement is an alias, returns a value.          *)
C16_NestsWithItself ==
    [][(ncalls' = ncalls + 1 /\ ret'.op = "canon"
            /\ TemplatedDependent(ts, ret'.arg) /\ len(ret'.arg) > 1
            /\ TemplatedDependent(ts, at(ret'.arg, 1))
            /\ at(at(ret'.arg, 1), 0) = at(ret'.arg, 0)
            /\ len(at(ret'.arg, 1)) = len(ret'.arg)
            /\ ~ParameterAliased(ts, ret'.arg))
          => ret'.e = "ok"]_vars

(* C17: a canon call that resolves an instantiation of a templated         *)
(* dependent refinement one of whose parameter names is a key of           *)
(* type_aliases raises, and leaves type_aliases as it was.                 *)
C17_ConflictRaises ==
    [][(ncalls' = ncalls + 1 /\ ret'.op = "canon" /\ ~ret'.hit
            /\ ParameterAliased(ts, ret'.arg))
          => (ret'.e # "ok" /\ ts'.type_aliases = ts.type_aliases)]_vars

(* C17: canon raised TypeError for an instantiation of range while its     *)
(* parameter name vtype was an alias                                       *)
C17_Witness ==
    /\ ret.op = "canon"
    /\ ~ret.hit
    /\ ret.e = "TypeError"
    /\ ret.arg = range_int32
    /\ ParameterAliased(ts, ret.arg)

(* the derivation calls of the state machine *)
DerivationOps ==
    {"canon", "strip_predicates", "cpp_type", "cython_c2py_getitem", "cython_c2py",
     "cython_py2c"}

(* the two converter tables *)
ConverterTables == {"cython_c2py_conv", "cython_py2c_conv"}

(* the step is a derivation call that returned a value *)
DerivationReturned ==
    ncalls' = ncalls + 1 /\ ret'.op \in DerivationOps /\ ret'.e = "ok"

(* the table d1 is d0 with at most the entry of key k added or replaced *)
GainedAtMost(d0, d1, k) ==
    /\ DOMAIN d1 \subseteq DOMAIN d0 \cup {k}
    /\ \A j \in DOMAIN d0 : j \in DOMAIN d1 /\ (j # k => d1[j] = d0[j])

ConverterTable(op) ==
    IF op = "cython_py2c" THEN "cython_py2c_conv" ELSE "cython_c2py_conv"

(* t and the types reached from it by unwrapping refinement predicates     *)
(* first, then heads                                                       *)
RECURSIVE RefinementChain(_, _)
RefinementChain(s, t) ==
    {t} \cup
    IF ~isSequence(t) \/ len(t) < 2 THEN {}
    ELSE IF self_isrefinement(s, at(t, 1)).v = Bool(TRUE)
         THEN RefinementChain(s, at(t, 1))
         ELSE RefinementChain(s, at(t, 0))

(* t and the types reached from it by unwrapping heads *)
RECURSIVE HeadChain(_, _)
HeadChain(s, t) ==
    {t} \cup IF ~isSequence(t) \/ len(t) = 0 THEN {} ELSE HeadChain(s, at(t, 0))

(* neither the canonical form of t nor any ancestor of it has an entry in  *)
(* the table                                                               *)
NoConverter(s, field, t) ==
    /\ self_canon(s, t).e = "ok"
    /\ \A k \in RefinementChain(s, self_canon(s, t).v)
                \cup HeadChain(s, self_canon(s, t).v) : k \notin DOMAIN s[field]

(* C19: cython_c2py and cython_py2c called for a type such that neither    *)
(* its canonical form nor any ancestor has an entry in the converter table *)
(* of the direction fail with NotImplementedError.                         *)
C19_MissingConverter ==
    (ret.op \in {"cython_c2py", "cython_py2c"}
        /\ NoConverter(ts, ConverterTable(ret.op), ret.arg))
        => ret.e = "NotImplementedError"

(* the entry the lookup of the canonical type t finds in the table *)
FoundEntry(s, field, t) ==
    LET k == conv_find(s, field, t)
    IN  IF k.e = "ok" /\ k.v \in DOMAIN s[field] THEN s[field][k.v] ELSE None

(* the step is a converter lookup that ran, not one answered from the memo *)
LookupRan ==
    /\ ncalls' = ncalls + 1
    /\ ret'.op \in {"cython_c2py_getitem", "cython_py2c"}
    /\ ~ret'.hit
    /\ self_canon(ts, ret'.arg).e = "ok"

(* C20: when a converter lookup for the canonical type t finds a callable, *)
(* the value the callable computes from (t, ts) is stored in the table     *)
(* under the key t and is what cython_c2py_getitem returns; and a lookup   *)
(* for a t that has an entry of its own which is no callable leaves the    *)
(* table as it is and, for cython_c2py_getitem, returns that entry.        *)
C20_CallableMaterialized ==
    [][LookupRan =>
        LET f == ConverterTable(ret'.op)
            t == self_canon(ts, ret'.arg).v
            e == FoundEntry(ts, f, t)
        IN  /\ callable(e)
               => /\ t \in DOMAIN ts'[f]
                  /\ ts'[f][t] = apply_callable(e, t, ts)
                  /\ ret'.op = "cython_c2py_getitem"
                        => (ret'.e = "ok" /\ ret'.v = ts'[f][t])
            /\ (t \in DOMAIN ts[f] /\ ~callable(ts[f][t]))
               => /\ ts'[f] = ts[f]
                  /\ (ret'.op = "cython_c2py_getitem" /\ ret'.e = "ok")
                        => ret'.v = ts[f][t]]_vars

(* C20: the entry computed by the callable of Pt is stored under           *)
(* ('Pt', '*'), and a lookup of ('Pt', '*') under another dtypes setting   *)
(* returned the stored entry                                               *)
C20_Witness ==
    /\ ret.op = "cython_c2py_getitem"
    /\ ret.e = "ok"
    /\ ~ret.hit
    /\ ret.arg = Tup(<<Pt, Str("*")>>)
    /\ ret.arg \in DOMAIN ts.cython_c2py_conv
    /\ ts.dtypes = "npdtypes"
    /\ ret.v = Tup(<<Txt(<<"dtypes", ".wrap(", "{var}", ")">>)>>)

(* the structural queries *)
StructuralQueries ==
    {"istemplate", "isrefinement", "isdependent", "strip_predicates", "basename"}

(* C21: a structural query (istemplate, isrefinement, isdependent,         *)
(* strip_predicates, basename) that answered for a descriptor t gives the  *)
(* same answer for canon(t).                                               *)
C21_QueriesCanonicalize ==
    (ret.op \in StructuralQueries /\ ret.e = "ok" /\ self_canon(ts, ret.arg).e = "ok")
        => Outcome(call(ts, ret.op, <<self_canon(ts, ret.arg).v>>)) = <<"ok", ret.v>>

(* the tables a deregistration removes its key from *)
DeregistrationTables(op) ==
    CASE op = "deregister_class" ->
            {ClassTables[i] : i \in 1..Len(ClassTables)} \cup {"template_types"}
      [] op = "deregister_refinement" ->
            {"refined_types", "cython_c2py_conv", "cython_py2c_conv", "cython_cimports",
             "cython_cyimports", "cython_pyimports"}
      [] op = "deregister_specialization" ->
            {"cython_ctypes", "cython_cytypes", "cython_pytypes", "cython_cimports",
             "cython_cyimports", "cython_pyimports"}
      [] op = "deregister_argument_kinds" -> {"argument_kinds"}

(* the key a deregistration removes: the name as given for a class or a    *)
(* refinement, the canonical form of the type otherwise                    *)
DeregistrationKey(s, op, arg) ==
    IF op \in {"deregister_class", "deregister_refinement"} THEN arg
    ELSE self_canon(s, arg).v

(* the key of the deregistration is in none of the tables it touches *)
AbsentKey(s, op, arg) ==
    /\ op \in {"deregister_specialization", "deregister_argument_kinds"}
          => self_canon(s, arg).e = "ok"
    /\ op = "deregister_class" => arg \notin s.base_types
    /\ \A f \in DeregistrationTables(op) : DeregistrationKey(s, op, arg) \notin DOMAIN s[f]

(* C22: deregister_class, deregister_refinement, deregister_specialization *)
(* and deregister_argument_kinds called with a key that is in none of the  *)
(* tables they touch return without raising and leave every table of the   *)
(* type system as it was.                                                  *)
C22_DeregistrationFailsSoft ==
    [][(/\ ncalls' = ncalls + 1
        /\ ret'.op \in {"deregister_class", "deregister_refinement",
                        "deregister_specialization", "deregister_argument_kinds"}
        /\ AbsentKey(ts, ret'.op, ret'.arg))
          => (ret'.e = "ok" /\ \A f \in datafields : ts'[f] = ts[f])]_vars

(* the keyword arguments of register_class whose value is stored as given, *)
(* with the table each is stored in                                        *)
ClassKeywords ==
    {<<"cython_c_type", "cython_ctypes">>, <<"cython_cy_type", "cython_cytypes">>,
     <<"cython_py_type", "cython_pytypes">>, <<"from_pytype", "from_pytypes">>,
     <<"cpp_type", "cpp_types">>, <<"human_name", "humannames">>,
     <<"cython_template_class_name", "cython_classnames">>,
     <<"cython_template_function_name", "cython_functionnames">>}

(* register_class(kw) on s re-registers the name with a different value in *)
(* the table of the pair p                                                 *)
ClassConflict(s, kw, p) ==
    /\ kw[p[1]] # None
    /\ kw.name \in DOMAIN s[p[2]]
    /\ s[p[2]][kw.name] # kw[p[1]]

(* register_argument_kinds(a) on s re-registers the type with other kinds *)
ArgumentKindConflict(s, a) ==
    /\ self_canon(s, a.t).e = "ok"
    /\ self_canon(s, a.t).v \in DOMAIN s.argument_kinds
    /\ s.argument_kinds[self_canon(s, a.t).v] # a.argkinds

(* C23: register_class and register_argument_kinds called for a key that   *)
(* already holds a different value return without raising, issue a         *)
(* warning, and leave the new value in the table.                          *)
C23_ReregistrationWarns ==
    [][/\ \A kw \in ClassInputs : \A p \in ClassKeywords :
             (RegisterClass(kw) /\ ClassConflict(ts, kw, p))
                => /\ ret'.e = "ok"
                   /\ ret'.v = Bool(TRUE)
                   /\ ts'[p[2]][kw.name] = kw[p[1]]
       /\ \A a \in ArgumentKindInputs :
             (RegisterArgumentKinds(a) /\ ArgumentKindConflict(ts, a))
                => /\ ret'.e = "ok"
                   /\ ret'.v = Bool(TRUE)
                   /\ ts'.argument_kinds[self_canon(ts, a.t).v] = a.argkinds]_vars

(* the spelling stored for the name n, as the table gives it when read *)
NativeSpelling(s, n) == lazy_getitem(s, s.cpp_types, n)[2]

(* s_h followed by '< ', s_b and ' >', and the predicate p around it *)
TemplateSpelling(s, h, b, p) ==
    LET plain == NativeSpelling(s, h) \o <<"< ">> \o NativeSpelling(s, b) \o <<" >">>
    IN  IF p = IntV(0) THEN plain
        ELSE IF p = Str("const") THEN <<"const", " ">> \o plain
        ELSE plain \o <<" ", p[2]>>

(* the one-slot templates and the base types that have a native spelling *)
SpelledTemplates(s) ==
    {h \in DOMAIN s.template_types \cap DOMAIN s.cpp_types : len(s.template_types[h]) = 1}

SpelledBaseTypes(s) == s.base_types \cap DOMAIN s.cpp_types

(* C24: for every one-slot template h and base type b that have a native   *)
(* spelling, and with no argument kinds registered for the type,           *)
(* cpp_type(canon((h, b, p))) is s_h, '< ', s_b, ' >' when p is 0, that    *)
(* text after 'const ' when p is 'const', and that text followed by ' *'   *)
(* when p is '*'.                                                          *)
C24_TemplateSpelling ==
    \A h \in SpelledTemplates(ts) : \A b \in SpelledBaseTypes(ts) :
    \A p \in {IntV(0), Str("const"), Str("*")} :
        LET c == self_canon(ts, Tup(<<h, b, p>>))
        IN  (c.e = "ok" /\ c.v \notin DOMAIN ts.argument_kinds)
               => Outcome(self_cpp_type(c.s, c.v)) =
                     <<"ok", Txt(TemplateSpelling(ts, h, b, p))>>

(* the simple refinements that no base type and no alias hides *)
SimpleRefinements(s) ==
    {r \in DOMAIN s.refined_types : isstr(r) /\ r \notin s.base_types
                                     /\ r \notin DOMAIN s.type_aliases}

(* C25: for every simple refinement r registered with parent p that is     *)
(* neither a base type nor an alias, canon(r) is (canon(p), r) whenever    *)
(* canon(p) returns, and when p is a base type strip_predicates of         *)
(* canon(r) is p.                                                          *)
C25_SimpleRefinementCanon ==
    \A r \in SimpleRefinements(ts) :
        LET p == ts.refined_types[r]
            cp == self_canon(ts, p)
            cr == self_canon(ts, r)
        IN  cp.e = "ok"
               => /\ Outcome(cr) = <<"ok", Tup(<<cp.v, r>>)>>
                  /\ p \in ts.base_types
                        => Outcome(self_strip_predicates(cr.s, cr.v)) = <<"ok", p>>

(* whether following the alias table and the refinement table from the     *)
(* descriptor t comes back to a name already passed                        *)
RECURSIVE TableCycle(_, _, _)
TableCycle(s, t, seen) ==
    IF isSequence(t) THEN \E i \in 0..(len(t) - 1) : TableCycle(s, at(t, i), seen)
    ELSE IF ~isstr(t) THEN FALSE
    ELSE IF t \in seen THEN TRUE
    ELSE IF t \in DOMAIN s.type_aliases
         THEN TableCycle(s, s.type_aliases[t], seen \cup {t})
    ELSE IF t \in DOMAIN s.refined_types
         THEN TableCycle(s, s.refined_types[t], seen \cup {t})
    ELSE FALSE

(* the alias table and the refinement table, the parents of the dependent  *)
(* refinements included, contain no cycle                                  *)
Acyclic(s) ==
    /\ \A t \in DOMAIN s.type_aliases : ~TableCycle(s, t, {})
    /\ \A k \in DOMAIN s.refined_types :
          IF isstr(k) THEN ~TableCycle(s, k, {})
          ELSE ~TableCycle(s, s.refined_types[k], {})

C27_MemoTransparent ==
    ret.op = "canon" => Outcome(ret) = Outcome(self_canon(DepTypeSystem, ret.arg))

(* C28: a call of canon that ends with an error leaves type_aliases equal  *)
(* to its value before the call.                                           *)
C28_AliasesRestoredOnError ==
    [][(ncalls' = ncalls + 1 /\ ret'.op = "canon" /\ ret'.e # "ok")
          => ts'.type_aliases = ts.type_aliases]_vars

(* the tables of the type system that are mappings *)
MappingTables == datafields \ {"base_types", "extra_types", "dtypes", "stlcontainers"}

(* the type system s has no entry for the name in any table *)
Unregistered(s, name) ==
    name \notin s.base_types /\ \A f \in MappingTables : name \notin DOMAIN s[f]

(* C29: deregister_class(name) called right after register_class(name,     *)
(* ...) returned on a type system that had no entry for name in any table  *)
(* returns and leaves every table equal to its value before the            *)
(* registration.                                                           *)
C29_RegisterDeregisterClass ==
    [][\A name \in {Mat, Vec3, Pt} :
          (/\ ret.op = "register_class" /\ ret.e = "ok" /\ ret.arg = name
           /\ Unregistered(ret.pre, name)
           /\ DeregisterClass(name))
             => (ret'.e = "ok" /\ \A f \in datafields : ts'[f] = ret.pre[f])]_vars

(* C30: a canon call made by one of two threads that call canon on the     *)
(* same type system ends with the outcome, value or error, that the call   *)
(* has when it runs alone.                                                 *)
C30_ThreadsIndependent ==
    ret.op = "canon" => Outcome(ret) = Outcome(self_canon(InitialTypeSystem, ret.arg))

====
